---- MODULE Spec2Model ----
(***************************************************************************)
(* A model of the task orchestration and checkpointing code of the         *)
(* repository:                                                             *)
(*   - PersonInfoFinder (src/src/person_info_finder.py): the asynchronous  *)
(*     pipeline process_all_names -> schedule_all_tasks -> poll_all_tasks, *)
(*     with its JSON checkpoint file;                                      *)
(*   - CareerStructurer (src/src/career_structurer.py): the synchronous    *)
(*     pipeline process_all_people -> process_batch (a thread pool whose   *)
(*     results the main thread collects and saves).                        *)
(* One behaviour is one or more process runs of one of the two pipelines   *)
(* against one checkpoint file; a run may crash at any step.               *)
(***************************************************************************)
EXTENDS Integers, Sequences, FiniteSets, TLC

VARIABLES
    mode,              \* "async" (PersonInfoFinder) or "sync" (CareerStructurer)
    run,               \* number of the current process run on this checkpoint file
    pc,                \* position of the main thread
    disk,              \* the output file: [closed, map]
    names_arg,         \* process_all_names: the names argument
    max_names,         \* process_all_names: the max_names argument (0 for None)
    names,             \* process_all_names: the local names, after names[:max_names]
    batch_size,        \* the batch_size argument
    max_wait_time,     \* poll_all_tasks: the max_wait_time argument
    batch_start,       \* process_all_names: the for-loop variable
    batch,             \* the current chunk
    existing_results,  \* the map loaded by the dispatch step
    names_to_process,  \* schedule_all_tasks: the filtered list
    i,                 \* schedule_all_tasks: index into names_to_process
    task_mapping,      \* dict name -> run_id, as a sequence in insertion order
    next_run,          \* the run_id the remote API hands out next
    completed_tasks,   \* poll_all_tasks: the set completed_tasks
    idx,               \* poll_all_tasks: position of the for loop over task_mapping
    timed_out,         \* poll_all_tasks: names of timed_out_tasks not yet saved
    elapsed,           \* time.time() - start_time
    save_name,         \* save_single_result: person_name
    all_results,       \* save_single_result: all_results after the update
    save_ret,          \* where save_single_result returns to
    save_val,          \* save_single_result: the person_info argument
    save_before,       \* the map the file held when save_single_result was called
    input_data,        \* process_all_people: the input dict, as a sequence in key order
    people_to_process, \* process_all_people: the filtered list
    batch_num,         \* process_all_people: number of the current batch
    fstate,            \* process_batch: per person, the state of its future
    fresult,           \* process_batch: per person, what its future holds
    collected,         \* process_batch: futures as_completed has yielded
    \* a second execution of the current batch of the structurer, run in
    \* lockstep with the first (same store at the start of the batch, same
    \* inputs, same schedule); it differs from the first only in the
    \* completion call for alt_x, which fails in the first and succeeds in it
    alt_x,             \* the person whose call differs in the current batch, or ""
    alt_fresult,       \* second execution: what each future holds
    alt_all_results,   \* second execution: all_results of save_single_result
    alt_disk,          \* second execution: the output file
    \* history variables (read by the properties only)
    committed,         \* the records whose save_single_result has returned, of those the run found
    create_log,        \* subjects given to create_task_run by the current dispatch step
    complete_log,      \* subjects given to the completion API by the current run
    tick_start,        \* elapsed at the start of the current tick
    tick_lat,          \* time spent in the queries of the current tick
    ticks,             \* ticks begun by the current poll_all_tasks
    qticks,            \* per name, ticks of the current poll in which its status was queried
    instant,           \* every query of the current poll took no time
    loop_over,         \* the polling loop of the current poll has ended
    late_query,        \* a status or result query was issued after the loop ended
    timeout_saved,     \* names the timeout finalization has saved
    resolved,          \* names a status query of the current poll found completed or failed
    remote_done,       \* remote service: names of the current mapping whose task has completed with a fetchable result
    done_at_tick,      \* the value of remote_done when the current tick began
    last_save,         \* the save_single_result call that returned last in the current run
    handles,           \* per subject, remote tasks created by the current run and not yet checkpointed
    save_count,        \* per subject, saves performed by the current process_batch or poll_all_tasks
    create_failed,     \* subjects whose create request failed in the current dispatch step
    gap,               \* dispatch clock: tenths of a second since the previous create call, or -1
    create_gap,        \* the value of gap when the latest create call was issued, or -1
    prev_pass,         \* the previous run, if it returned: [done, map]
    last_status,       \* per name, the status its status query of the current tick gave
    qfail,             \* the handle whose latest status query failed (the most recent such), or ""
    tick_q,            \* per name, status queries issued for it in the current tick
    tick_saved,        \* names saved in the current tick
    fetched_ok,        \* names whose result fetch of the current poll gave the content
    ex_i,              \* process_all_names: position of the except handler in batch
    exc_before,        \* [raised, map, count]: the file's map when an exception escaped the chunk, exceptions of the run
    succeeded,         \* subjects whose external work has succeeded (in any run)
    term_failed,       \* subjects for which a terminal failure occurred in the current run
    chunks,            \* the chunks the coordinator has begun in the current run
    paused,            \* the pause the coordinator took before the current chunk, or -1
    pool_n,            \* pool model: the length of the batch
    pool_submitted,    \* pool model: units submitted so far
    pool_running,      \* pool model: units a pool thread is executing
    pool_done,         \* pool model: units whose future is done
    alumni_data,       \* app.py: the loaded dataset, as a sequence of persons in key order
    query,             \* search_alumni: the query argument, a text
    limit,             \* search_alumni: the limit argument
    alumni_with_jobs,  \* search_alumni: positions in alumni_data of the persons with jobs
    pos,               \* search_alumni: position of the for loop in alumni_with_jobs
    results,           \* search_alumni: the list results, as positions in alumni_data
    spc,               \* search_alumni: position of the call
    url_file,          \* name_scraper.py: results/names_extracted.json, a map url -> record
    url_results,       \* process_urls_individually: all_results
    urls_to_process,   \* process_urls_individually: urls_to_process
    url_i,             \* process_urls_individually: position of the for loop
    url_pc,            \* position of the call of process_empty_name_urls_only
    url_before         \* history: the results file when the call began

asyncVars == <<names, batch_size, max_wait_time, batch_start, batch,
               names_to_process, i, task_mapping, next_run, completed_tasks,
               idx, timed_out, elapsed>>
saveVars == <<save_name, all_results, alt_all_results, save_ret, save_val,
              save_before>>
tickHist == <<last_status, qfail, tick_q, tick_saved, fetched_ok>>
pollHist == <<tick_start, tick_lat, ticks, qticks, instant, loop_over,
              late_query, timeout_saved, resolved, tickHist, remote_done,
              done_at_tick>>
excVars == <<ex_i, exc_before>>
runHist == <<succeeded, term_failed, chunks, paused>>
saveHist == <<last_save, handles, save_count>>
dispHist == <<create_failed, gap, create_gap>>
poolVars == <<pool_n, pool_submitted, pool_running, pool_done>>

callArgs == <<names_arg, max_names>>
scrapeVars == <<url_file, url_results, urls_to_process, url_i, url_pc,
                url_before>>
searchVars == <<alumni_data, query, limit, alumni_with_jobs, pos, results, spc>>
syncLocals == <<people_to_process, batch_num, fstate, fresult, collected,
                complete_log, alt_x, alt_fresult>>
syncVars == <<input_data, syncLocals>>
vars == <<mode, run, pc, disk, alt_disk, existing_results, asyncVars, saveVars, syncVars,
          alt_disk, committed, create_log, pollHist, saveHist, dispHist,
          prev_pass, poolVars, excVars, runHist, searchVars, callArgs, scrapeVars>>

----------------------------------------------------------------------------
(* Bounds of the model                                                      *)

MaxNames == 3
MaxRuns == 2
MaxPoolBatch == 102

Subjects == {"A", "B", "C"}
NameAlphabet == {"A", "B"}
KeyOrder == <<"A", "B", "C">>
BatchSizes == {1, 2}
PoolBatchSizes == {2, 3}
MaxWaits == {60, 100, 120}

(* Program constants                                                        *)

SleepInterval == 60
RequestTimeout == 30

(* time.sleep(0.5) between dispatch calls; the dispatch clock counts       *)
(* tenths of a second.                                                     *)
DispatchDelay == 5

(* time.sleep(2) between two batches of process_all_people, in seconds     *)
BatchPause == 2

(* Python values: None, and the opaque content of a successful result.     *)
NULL == "null"
CONTENT == "content"
Values == {NULL, CONTENT}

(* A query takes no time or up to the request timeout.                     *)
Latencies == {0, RequestTimeout}

----------------------------------------------------------------------------
(* Dicts.  A JSON object is a function on a finite set of subjects.        *)

EmptyMap == [s \in {} |-> NULL]

(* faulty variant: a write to a key already present merges old and new     *)
MERGED == "merged"

PutMerge(m, k, v) ==
    [s \in (DOMAIN m) \cup {k} |->
        IF s # k THEN m[s]
        ELSE IF k \in DOMAIN m /\ m[k] # v THEN MERGED ELSE v]

(* all_results[person_name] = person_info                                  *)
Put(m, k, v) == [s \in (DOMAIN m) \cup {k} |-> IF s = k THEN v ELSE m[s]]

(* json.dump of a dict, and json.load of the file's text.  A file that the *)
(* truncating open has emptied, or whose dump has not finished, holds no   *)
(* complete JSON object.                                                   *)
Serialize(m) == [closed |-> TRUE, map |-> m]

Truncated == [closed |-> FALSE, map |-> EmptyMap]

(* load_existing_results: JSONDecodeError is caught and gives {}.          *)
load_existing_results(file) == IF file.closed THEN file.map ELSE EmptyMap

(* task_mapping[name] = run_id on a dict kept in insertion order.          *)
Keys(tm) == {tm[k].name : k \in DOMAIN tm}

(* faulty variant: the mapping keeps one entry per create request          *)
DictSetAppend(tm, name, rid) == Append(tm, [name |-> name, run_id |-> rid])

DictSet(tm, name, rid) ==
    IF name \in Keys(tm)
    THEN [k \in DOMAIN tm |-> IF tm[k].name = name
                              THEN [name |-> name, run_id |-> rid]
                              ELSE tm[k]]
    ELSE Append(tm, [name |-> name, run_id |-> rid])

Min(a, b) == IF a < b THEN a ELSE b

(* [name for name in names if name not in existing_results]                *)
RECURSIVE Filter(_, _)
Filter(seq, existing) ==
    IF seq = <<>> THEN <<>>
    ELSE IF Head(seq) \in DOMAIN existing
         THEN Filter(Tail(seq), existing)
         ELSE <<Head(seq)>> \o Filter(Tail(seq), existing)

(* faulty variant: the dispatch step without the filter                    *)
NamesToProcessUnfiltered(ns, existing) == ns

NamesToProcess(ns, existing) == Filter(ns, existing)

(* names[batch_start:batch_end] with 0-based batch_start                   *)
(* faulty variant: the slice takes one element more                       *)
ChunkLonger(ns, start, size) == SubSeq(ns, start + 1, Min(start + size + 1, Len(ns)))

Chunk(ns, start, size) == SubSeq(ns, start + 1, Min(start + size, Len(ns)))

NameLists == UNION {[1..n -> NameAlphabet] : n \in 1..MaxNames}

(* The input file of the structurer is the output file of the finder: per  *)
(* person None, a blank string or the text of the career information.      *)
BLANK == " "
RAW == "raw"
RawValues == {NULL, BLANK, RAW}

InputDicts ==
    UNION {{[k \in 1..n |-> [name |-> KeyOrder[k], raw |-> r[k]]] :
               r \in [1..n -> RawValues]} :
           n \in 1..Len(KeyOrder)}


----------------------------------------------------------------------------
(* The state after construction: __init__ writes {} to a missing file.     *)

ResetSave ==
    /\ save_name' = ""
    /\ all_results' = EmptyMap
    /\ alt_all_results' = EmptyMap
    /\ save_ret' = ""
    /\ save_val' = NULL
    /\ save_before' = EmptyMap

NoSave == [name |-> "", val |-> NULL, before |-> EmptyMap]

NoPass == [done |-> FALSE, map |-> EmptyMap]

ResetSaveHist ==
    /\ last_save' = NoSave
    /\ handles' = [s \in Subjects |-> 0]
    /\ save_count' = [s \in Subjects |-> 0]

ResetDispHist ==
    /\ create_failed' = {}
    /\ gap' = -1
    /\ create_gap' = -1

ResetPollHist ==
    /\ tick_start' = 0
    /\ tick_lat' = 0
    /\ ticks' = 0
    /\ qticks' = [s \in Subjects |-> 0]
    /\ instant' = TRUE
    /\ loop_over' = FALSE
    /\ late_query' = FALSE
    /\ timeout_saved' = {}
    /\ resolved' = {}
    /\ last_status' = [s \in Subjects |-> ""]
    /\ qfail' = ""
    /\ tick_q' = [s \in Subjects |-> 0]
    /\ tick_saved' = {}
    /\ fetched_ok' = {}
    /\ remote_done' = {}
    /\ done_at_tick' = {}

NoExc == [raised |-> FALSE, map |-> EmptyMap, count |-> 0]

(* history across runs: of the subjects whose work succeeded, those whose  *)
(* payload the file still holds                                            *)
StillStored ==
    {s \in succeeded : /\ s \in DOMAIN load_existing_results(disk)
                       /\ load_existing_results(disk)[s] = CONTENT}

ResetRunHist ==
    /\ succeeded' = StillStored
    /\ ex_i' = 0
    /\ exc_before' = NoExc
    /\ term_failed' = {}
    /\ chunks' = <<>>
    /\ paused' = -1

(* no search request is part of a pipeline run                             *)
SearchIdle ==
    /\ alumni_data = <<>>
    /\ query = <<>>
    /\ limit = 0
    /\ alumni_with_jobs = <<>>
    /\ pos = 0
    /\ results = <<>>
    /\ spc = "idle"

(* no call of the name scraper is part of a pipeline run                   *)
ScrapeIdle ==
    /\ url_file = EmptyMap
    /\ url_results = EmptyMap
    /\ urls_to_process = <<>>
    /\ url_i = 0
    /\ url_pc = "idle"
    /\ url_before = EmptyMap

(* the pool model is not part of a pipeline run                            *)
PoolIdle ==
    /\ pool_n = 0
    /\ pool_submitted = 0
    /\ pool_running = 0
    /\ pool_done = 0

ResetSyncLocals ==
    /\ people_to_process' = <<>>
    /\ batch_num' = 0
    /\ fstate' = [s \in Subjects |-> "none"]
    /\ fresult' = [s \in Subjects |-> "none"]
    /\ collected' = {}
    /\ complete_log' = {}
    /\ alt_x' = ""
    /\ alt_fresult' = [s \in Subjects |-> "none"]

InitLocals ==
    /\ run = 1
    /\ disk = Serialize(EmptyMap)
    /\ people_to_process = <<>>
    /\ batch_num = 0
    /\ fstate = [s \in Subjects |-> "none"]
    /\ fresult = [s \in Subjects |-> "none"]
    /\ collected = {}
    /\ complete_log = {}
    /\ alt_x = ""
    /\ alt_fresult = [s \in Subjects |-> "none"]
    /\ alt_all_results = EmptyMap
    /\ alt_disk = Serialize(EmptyMap)
    /\ batch_start = 0
    /\ batch = <<>>
    /\ existing_results = EmptyMap
    /\ names_to_process = <<>>
    /\ i = 0
    /\ task_mapping = <<>>
    /\ next_run = 1
    /\ completed_tasks = {}
    /\ idx = 0
    /\ timed_out = {}
    /\ elapsed = 0
    /\ save_name = ""
    /\ all_results = EmptyMap
    /\ save_ret = ""
    /\ committed = EmptyMap
    /\ create_log = {}
    /\ tick_start = 0
    /\ tick_lat = 0
    /\ ticks = 0
    /\ qticks = [s \in Subjects |-> 0]
    /\ instant = TRUE
    /\ loop_over = FALSE
    /\ late_query = FALSE
    /\ timeout_saved = {}
    /\ resolved = {}
    /\ save_val = NULL
    /\ save_before = EmptyMap
    /\ last_save = NoSave
    /\ handles = [s \in Subjects |-> 0]
    /\ save_count = [s \in Subjects |-> 0]
    /\ create_failed = {}
    /\ gap = -1
    /\ create_gap = -1
    /\ prev_pass = NoPass
    /\ last_status = [s \in Subjects |-> ""]
    /\ qfail = ""
    /\ tick_q = [s \in Subjects |-> 0]
    /\ tick_saved = {}
    /\ fetched_ok = {}
    /\ remote_done = {}
    /\ done_at_tick = {}
    /\ ex_i = 0
    /\ exc_before = NoExc
    /\ succeeded = {}
    /\ term_failed = {}
    /\ chunks = <<>>
    /\ paused = -1

(* PersonInfoFinder(...).process_all_names(names, batch_size)               *)
InitAsync ==
    /\ mode = "async"
    /\ pc = "pan_start"
    /\ names_arg \in NameLists
    /\ max_names = 0
    /\ names = <<>>
    /\ batch_size \in BatchSizes
    /\ max_wait_time \in MaxWaits
    /\ input_data = <<>>
    /\ InitLocals
    /\ PoolIdle
    /\ SearchIdle
    /\ ScrapeIdle

(* CareerStructurer().process_all_people(batch_size=...)                    *)
InitSync ==
    /\ mode = "sync"
    /\ pc = "pap_start"
    /\ names_arg = <<>>
    /\ max_names = 0
    /\ names = <<>>
    /\ batch_size \in PoolBatchSizes
    /\ max_wait_time = 0
    /\ input_data \in InputDicts
    /\ InitLocals
    /\ PoolIdle
    /\ SearchIdle
    /\ ScrapeIdle

Init == InitAsync \/ InitSync

----------------------------------------------------------------------------
(* save_single_result(person_name, person_info): load, update, truncating  *)
(* open, dump.  The load and the update happen in the step that calls it.  *)

(* faulty variant: the save reuses the map the run loaded at its start     *)
SaveLoadStale(file) == existing_results

(* faulty variant: the save starts from an empty map                       *)
SaveLoadEmpty(file) == EmptyMap

SaveLoad(file) == load_existing_results(file)

BeginSave2(name, val, alt_val, ret) ==
    /\ save_name' = name
    /\ all_results' = Put(SaveLoad(disk), name, val)
    /\ alt_all_results' = Put(SaveLoad(alt_disk), name, alt_val)
    /\ save_ret' = ret
    /\ save_val' = val
    /\ save_before' = load_existing_results(disk)
    /\ pc' = "save_open"

BeginSave(name, val, ret) == BeginSave2(name, val, val, ret)

(* open(self.output_file, "w")                                             *)
SaveOpen ==
    /\ pc = "save_open"
    /\ disk' = Truncated
    /\ alt_disk' = Truncated
    /\ pc' = "save_dump"
    /\ UNCHANGED <<syncVars, mode, run, existing_results, asyncVars, saveVars,
                   committed, create_log, pollHist,
                   saveHist, dispHist, prev_pass, poolVars, searchVars, callArgs, scrapeVars,
                   excVars, runHist>>

(* json.dump(all_results, f) and the close of the file; the call returns.  *)
SaveDump ==
    /\ pc = "save_dump"
    /\ disk' = Serialize(all_results)
    /\ alt_disk' = Serialize(alt_all_results)
    /\ committed' = Put(committed, save_name, all_results[save_name])
    /\ last_save' = [name |-> save_name, val |-> save_val, before |-> save_before]
    /\ handles' = [handles EXCEPT ![save_name] = 0]
    /\ save_count' = IF mode = "sync" \/ save_ret \in {"poll_mark", "poll_timeouts"}
                     THEN [save_count EXCEPT ![save_name] = @ + 1]
                     ELSE save_count
    /\ pc' = save_ret
    /\ ResetSave
    /\ UNCHANGED <<syncVars, mode, run, existing_results, asyncVars, create_log, pollHist,
                   dispHist, prev_pass, poolVars, searchVars, callArgs, scrapeVars,
                   excVars, runHist>>

----------------------------------------------------------------------------
(* faulty variant: the slice is one element short                          *)
TruncateShort(ns, n) == SubSeq(ns, 1, Min(n, Len(ns)) - 1)

(* names[:max_names]                                                       *)
Truncate(ns, n) == SubSeq(ns, 1, Min(n, Len(ns)))

(* process_all_names: if max_names: names = names[:max_names]              *)
PanStart ==
    /\ pc = "pan_start"
    /\ mode = "async"
    /\ names' = IF max_names # 0 THEN Truncate(names_arg, max_names)
                ELSE names_arg
    /\ pc' = "pan_head"
    /\ UNCHANGED <<syncVars, mode, run, disk, alt_disk, existing_results,
                   batch_size, max_wait_time, batch_start, batch,
                   names_to_process, i, task_mapping, next_run,
                   completed_tasks, idx, timed_out, elapsed, saveVars,
                   committed, create_log, pollHist, saveHist, dispHist,
                   prev_pass, poolVars, searchVars, callArgs, scrapeVars, excVars,
                   runHist>>

(* process_all_names: the head of the for loop over the chunks, and for a  *)
(* chunk the first lines of schedule_all_tasks (load, filter).             *)

EndChunk ==
    /\ batch_start' = batch_start + batch_size
    /\ pc' = "pan_head"
    /\ paused' = 0

PanHead ==
    /\ pc = "pan_head"
    /\ mode = "async"
    /\ IF batch_start < Len(names)
       THEN LET b == Chunk(names, batch_start, batch_size)
                ex == load_existing_results(disk)
                todo == NamesToProcess(b, ex)
            IN /\ batch' = b
               /\ existing_results' = ex
               /\ names_to_process' = todo
               /\ task_mapping' = <<>>
               /\ create_log' = {}
               /\ ResetDispHist
               /\ chunks' = Append(chunks, b)
               /\ IF todo = <<>>
                  THEN /\ EndChunk
                       /\ i' = 0
                  ELSE /\ pc' = "sched_create"
                       /\ i' = 1
                       /\ UNCHANGED <<batch_start, paused>>
       ELSE /\ pc' = "returned"
            /\ UNCHANGED <<batch, existing_results, names_to_process,
                           task_mapping, create_log, batch_start, i, dispHist,
                           chunks, paused>>
    /\ exc_before' = [NoExc EXCEPT !.count = exc_before.count]
    /\ UNCHANGED ex_i
    /\ UNCHANGED <<syncVars, mode, run, disk, alt_disk, names, batch_size,
                   max_wait_time, next_run,
                   completed_tasks, idx, timed_out, elapsed, saveVars,
                   committed, pollHist,
                   saveHist, prev_pass, poolVars, searchVars, callArgs, scrapeVars,
                   succeeded, term_failed>>

(* faulty variant: a failed create request is saved as if it had a payload *)
CreateFailedRecordContent == CONTENT

(* what a failed create request is saved as: save_single_result(name, None) *)
CreateFailedRecord == NULL

(* faulty variant: the pause follows a successful request only             *)
DispatchSleepOnSuccess ==
    IF names_to_process[i] \in create_failed THEN 0 ELSE DispatchDelay

(* time.sleep(0.5) at the end of each iteration of the dispatch loop       *)
DispatchSleep == DispatchDelay

(* schedule_all_tasks: run_id = self.create_task_run(name); the remote API *)
(* gives a run id, or the call fails and returns None.                     *)
SchedCreate ==
    /\ pc = "sched_create"
    /\ LET name == names_to_process[i]
       IN /\ create_log' = create_log \cup {name}
          /\ create_gap' = gap
          /\ \E lat \in Latencies : gap' = 10 * lat
          /\ \/ /\ task_mapping' = DictSet(task_mapping, name, next_run)
                /\ next_run' = next_run + 1
                /\ handles' = [handles EXCEPT ![name] = @ + 1]
                /\ pc' = "sched_sleep"
                /\ UNCHANGED <<saveVars, create_failed, term_failed>>
             \/ /\ BeginSave(name, CreateFailedRecord, "sched_sleep")
                /\ create_failed' = create_failed \cup {name}
                /\ term_failed' = term_failed \cup {name}
                /\ UNCHANGED <<task_mapping, next_run, handles>>
    /\ UNCHANGED <<syncVars, mode, run, disk, alt_disk, existing_results, names, batch_size,
                   max_wait_time, batch_start, batch, names_to_process, i,
                   completed_tasks, idx, timed_out, elapsed, committed, pollHist,
                   last_save, save_count, prev_pass, poolVars, searchVars, callArgs, scrapeVars,
                   excVars, succeeded, chunks, paused>>

(* time.sleep(0.5), the next name; after the last one schedule_all_tasks   *)
(* returns and process_all_names calls poll_all_tasks if task_mapping is   *)
(* not empty (start_time = time.time(), completed_tasks = set()).          *)
SchedSleep ==
    /\ pc = "sched_sleep"
    /\ IF i < Len(names_to_process)
       THEN /\ i' = i + 1
            /\ pc' = "sched_create"
            /\ gap' = gap + DispatchSleep
            /\ UNCHANGED <<batch_start, completed_tasks, elapsed, pollHist,
                           create_gap, paused, save_count>>
       ELSE /\ i' = 0
            /\ gap' = -1
            /\ create_gap' = -1
            /\ IF task_mapping # <<>>
               THEN /\ pc' = "poll_head"
                    /\ completed_tasks' = {}
                    /\ elapsed' = 0
                    /\ ResetPollHist
                    /\ save_count' = [s \in Subjects |-> 0]
                    /\ UNCHANGED <<batch_start, paused>>
               ELSE /\ EndChunk
                    /\ UNCHANGED <<completed_tasks, elapsed, pollHist,
                                   save_count>>
    /\ UNCHANGED <<syncVars, mode, run, disk, alt_disk, existing_results, names, batch_size,
                   max_wait_time, batch, names_to_process, task_mapping,
                   next_run, idx, timed_out, saveVars, committed, create_log,
                   create_failed, last_save, handles, prev_pass, poolVars, searchVars, callArgs, scrapeVars,
                   excVars, succeeded, term_failed, chunks>>


----------------------------------------------------------------------------
(* poll_all_tasks                                                          *)

(* what get_task_status(run_id) or "unknown" can be: a status string of    *)
(* the API, "unknown" when the query failed, or a JSON object or array,    *)
(* which status_counts.get(status, 0) cannot hash (TypeError)              *)
UNHASHABLE == "unhashable"

Statuses == {"completed", "failed", "running", "unknown", UNHASHABLE}

(* faulty variant: the exception is not caught and ends the run            *)
RaiseUncaught ==
    /\ pc' = "returned"
    /\ ex_i' = 0
    /\ exc_before' = [raised |-> TRUE, map |-> load_existing_results(disk),
                      count |-> exc_before.count + 1]

(* an exception escapes schedule_all_tasks or poll_all_tasks and reaches   *)
(* the except clause of process_all_names                                  *)
Raise ==
    /\ pc' = "except_save"
    /\ ex_i' = 1
    /\ exc_before' = [raised |-> TRUE, map |-> load_existing_results(disk),
                      count |-> exc_before.count + 1]

(* faulty variant: every name is skipped                                   *)
AlreadyCompletedAll(name) == TRUE

(* faulty variant: a completed name is queried again                       *)
AlreadyCompletedNever(name) == FALSE

(* if name in completed_tasks: continue                                    *)
AlreadyCompleted(name) == name \in completed_tasks

(* faulty variant: the deadline test admits elapsed = max_wait_time        *)
LoopConditionInclusive ==
    /\ Cardinality(completed_tasks) < Len(task_mapping)
    /\ elapsed <= max_wait_time

(* the while condition                                                     *)
LoopCondition ==
    /\ Cardinality(completed_tasks) < Len(task_mapping)
    /\ elapsed < max_wait_time

(* faulty variant: no handle is finalized after the loop                   *)
TimedOutTasksNone == {}

(* faulty variant: every handle is finalized after the loop                *)
TimedOutTasksAll == Keys(task_mapping)

(* timed_out_tasks = set(task_mapping.keys()) - completed_tasks            *)
TimedOutTasks == Keys(task_mapping) \ completed_tasks

(* faulty variant: the timeout finalization saves a payload                *)
TimedOutRecordContent == CONTENT

(* what the timeout finalization saves: save_single_result(name, None)     *)
TimedOutRecord == NULL

(* faulty variant: a task found "failed" is saved with a payload           *)
FailedRecordContent == CONTENT

(* what a task found "failed" is saved as                                  *)
FailedRecord == NULL

(* faulty variant: the sleep lasts two intervals                           *)
SleepAfterTickTwice ==
    IF Cardinality(completed_tasks) < Len(task_mapping) THEN 2 * SleepInterval ELSE 0

(* faulty variant: the loop sleeps after every tick                        *)
SleepAfterTickAlways == SleepInterval

(* the sleep at the end of a tick                                          *)
SleepAfterTick ==
    IF Cardinality(completed_tasks) < Len(task_mapping) THEN SleepInterval ELSE 0

PollHead ==
    /\ pc = "poll_head"
    /\ IF LoopCondition
       THEN /\ pc' = "poll_iter"
            /\ idx' = 1
            /\ tick_start' = elapsed
            /\ tick_lat' = 0
            /\ ticks' = ticks + 1
            /\ tick_q' = [s \in Subjects |-> 0]
            /\ tick_saved' = {}
            /\ done_at_tick' = remote_done
            /\ UNCHANGED <<timed_out, loop_over>>
       ELSE /\ pc' = "poll_timeouts"
            /\ timed_out' = TimedOutTasks
            /\ loop_over' = TRUE
            /\ UNCHANGED <<idx, tick_start, tick_lat, ticks, tick_q, tick_saved,
                           done_at_tick>>
    /\ UNCHANGED <<syncVars, mode, run, disk, alt_disk, existing_results, names, batch_size,
                   max_wait_time, batch_start, batch, names_to_process, i,
                   task_mapping, next_run, completed_tasks, elapsed, saveVars,
                   committed, create_log, qticks, instant, late_query,
                   timeout_saved,
                   resolved, saveHist, dispHist, prev_pass, poolVars, searchVars, callArgs, scrapeVars,
                   last_status, qfail, fetched_ok, excVars, runHist, remote_done>>

(* a remote query that takes lat time units                                *)
Query(lat) ==
    /\ elapsed' = elapsed + lat
    /\ tick_lat' = tick_lat + lat
    /\ instant' = (instant /\ lat = 0)
    /\ late_query' = (late_query \/ loop_over)

(* one step of `for name, run_id in task_mapping.items()`: skip a          *)
(* completed name, or query the status of the next one; after the last     *)
(* one, the sleep.                                                         *)
PollIter ==
    /\ pc = "poll_iter"
    /\ IF idx > Len(task_mapping)
       THEN /\ elapsed' = elapsed + SleepAfterTick
            /\ pc' = "poll_head"
            /\ last_status' = [s \in Subjects |-> ""]
            /\ UNCHANGED <<idx, saveVars, tick_lat, instant, late_query, qticks,
                           resolved, qfail, tick_q, tick_saved, fetched_ok,
                           term_failed, excVars>>
       ELSE LET name == task_mapping[idx].name
            IN IF AlreadyCompleted(name)
               THEN /\ idx' = idx + 1
                    /\ UNCHANGED <<pc, elapsed, saveVars, tick_lat, instant,
                                   late_query, qticks, resolved, tickHist,
                                   term_failed, excVars>>
               ELSE \E lat \in Latencies, status \in Statuses :
                       /\ Query(lat)
                       /\ qticks' = [qticks EXCEPT ![name] = @ + 1]
                       /\ resolved' = IF status \in {"completed", "failed"}
                                      THEN resolved \cup {name}
                                      ELSE resolved
                       /\ last_status' = [last_status EXCEPT ![name] = status]
                       /\ qfail' = IF status = "unknown" THEN name
                                   ELSE IF qfail = name THEN "" ELSE qfail
                       /\ tick_q' = [tick_q EXCEPT ![name] = @ + 1]
                       /\ UNCHANGED fetched_ok
                       /\ IF status = "completed"
                          THEN /\ pc' = "poll_result"
                               /\ UNCHANGED <<idx, saveVars, tick_saved,
                                              term_failed, excVars>>
                          ELSE IF status = "failed"
                          THEN /\ BeginSave(name, FailedRecord, "poll_mark")
                               /\ tick_saved' = tick_saved \cup {name}
                               /\ term_failed' = term_failed \cup {name}
                               /\ UNCHANGED <<idx, excVars>>
                          ELSE IF status = UNHASHABLE
                          THEN /\ Raise
                               /\ UNCHANGED <<idx, saveVars, tick_saved,
                                              term_failed>>
                          ELSE /\ idx' = idx + 1
                               /\ UNCHANGED <<pc, saveVars, tick_saved,
                                              term_failed, excVars>>
    /\ UNCHANGED <<syncVars, mode, run, disk, alt_disk, existing_results, names, batch_size,
                   max_wait_time, batch_start, batch, names_to_process, i,
                   task_mapping, next_run, completed_tasks, timed_out,
                   committed, create_log, tick_start, ticks, loop_over,
                   timeout_saved, remote_done, done_at_tick,
                   saveHist, dispHist, prev_pass, poolVars, searchVars, callArgs, scrapeVars,
                   succeeded, chunks, paused>>

(* faulty variant: the result of a completed task is fetched but not     *)
(* saved                                                                  *)
PollResultNoSave ==
    /\ pc = "poll_result"
    /\ \E lat \in Latencies, fetched \in BOOLEAN :
          /\ Query(lat)
          /\ pc' = "poll_mark"
          /\ UNCHANGED saveVars
    /\ UNCHANGED <<syncVars, mode, run, disk, alt_disk, existing_results, names, batch_size,
                   max_wait_time, batch_start, batch, names_to_process, i,
                   task_mapping, next_run, completed_tasks, idx, timed_out,
                   committed, create_log, tick_start, ticks, qticks, loop_over,
                   timeout_saved,
                   resolved, saveHist, dispHist, prev_pass, poolVars, searchVars, callArgs, scrapeVars,
                   tickHist, excVars, runHist, remote_done, done_at_tick>>

(* result = self.get_task_result(run_id): the content, or a failed fetch   *)
PollResult ==
    /\ pc = "poll_result"
    /\ \E lat \in Latencies, fetched \in BOOLEAN :
          /\ Query(lat)
          /\ BeginSave(task_mapping[idx].name,
                       IF fetched THEN CONTENT ELSE NULL, "poll_mark")
          /\ tick_saved' = tick_saved \cup {task_mapping[idx].name}
          /\ IF fetched
             THEN /\ fetched_ok' = fetched_ok \cup {task_mapping[idx].name}
                  /\ succeeded' = succeeded \cup {task_mapping[idx].name}
                  /\ UNCHANGED term_failed
             ELSE /\ term_failed' = term_failed \cup {task_mapping[idx].name}
                  /\ UNCHANGED <<fetched_ok, succeeded>>
    /\ UNCHANGED <<syncVars, mode, run, disk, alt_disk, existing_results, names, batch_size,
                   max_wait_time, batch_start, batch, names_to_process, i,
                   task_mapping, next_run, completed_tasks, idx, timed_out,
                   committed, create_log, tick_start, ticks, qticks, loop_over,
                   timeout_saved,
                   resolved, saveHist, dispHist, prev_pass, poolVars, searchVars, callArgs, scrapeVars,
                   last_status, qfail, tick_q, excVars, chunks, paused,
                   remote_done, done_at_tick>>

(* completed_tasks.add(name)                                               *)
PollMark ==
    /\ pc = "poll_mark"
    /\ completed_tasks' = completed_tasks \cup {task_mapping[idx].name}
    /\ idx' = idx + 1
    /\ pc' = "poll_iter"
    /\ UNCHANGED <<syncVars, mode, run, disk, alt_disk, existing_results, names, batch_size,
                   max_wait_time, batch_start, batch, names_to_process, i,
                   task_mapping, next_run, timed_out, elapsed, saveVars,
                   committed, create_log, pollHist,
                   saveHist, dispHist, prev_pass, poolVars, searchVars, callArgs, scrapeVars,
                   excVars, runHist>>

(* for name in timed_out_tasks: self.save_single_result(name, None); then  *)
(* poll_all_tasks returns.                                                 *)
PollTimeouts ==
    /\ pc = "poll_timeouts"
    /\ IF timed_out = {}
       THEN /\ pc' = "poll_returned"
            /\ UNCHANGED <<timed_out, timeout_saved, saveVars, term_failed>>
       ELSE \E name \in timed_out :
               /\ timed_out' = timed_out \ {name}
               /\ timeout_saved' = timeout_saved \cup {name}
               /\ term_failed' = term_failed \cup {name}
               /\ BeginSave(name, TimedOutRecord, "poll_timeouts")
    /\ UNCHANGED <<syncVars, mode, run, disk, alt_disk, existing_results, names, batch_size,
                   max_wait_time, batch_start, batch, names_to_process, i,
                   task_mapping, next_run, completed_tasks, idx, elapsed,
                   committed, create_log, tick_start, tick_lat, ticks, qticks,
                   instant, loop_over, late_query,
                   resolved, saveHist, dispHist, prev_pass, poolVars, searchVars, callArgs, scrapeVars,
                   tickHist, excVars, succeeded, chunks, paused,
                   remote_done, done_at_tick>>

(* back in process_all_names: "Batch completed", the next chunk.           *)
BatchCompleted ==
    /\ pc = "poll_returned"
    /\ EndChunk
    /\ completed_tasks' = {}
    /\ idx' = 0
    /\ elapsed' = 0
    /\ ResetPollHist
    /\ save_count' = [s \in Subjects |-> 0]
    /\ UNCHANGED <<syncVars, mode, run, disk, alt_disk, existing_results, names, batch_size,
                   max_wait_time, batch, names_to_process, i, task_mapping,
                   next_run, timed_out, saveVars, committed, create_log,
                   last_save, handles, dispHist, prev_pass, poolVars, searchVars, callArgs, scrapeVars,
                   excVars, succeeded, term_failed, chunks>>

(* faulty variant: the except clause ends the run                          *)
ExceptEndAbort ==
    /\ pc' = "returned"
    /\ paused' = 0
    /\ UNCHANGED batch_start

(* the except clause is done: the for loop of process_all_names goes on    *)
ExceptEnd == EndChunk

(* faulty variant: the except clause saves a payload                       *)
ChunkFailedRecordContent == CONTENT

(* what the except clause saves for a name of the chunk                    *)
ChunkFailedRecord == NULL

(* except Exception: for name in batch: self.save_single_result(name, None) *)
ExceptSave ==
    /\ pc = "except_save"
    /\ IF ex_i <= Len(batch)
       THEN /\ BeginSave(batch[ex_i], ChunkFailedRecord, "except_save")
            /\ ex_i' = ex_i + 1
            /\ UNCHANGED <<batch_start, completed_tasks, idx, elapsed, pollHist,
                           paused, save_count>>
       ELSE /\ ExceptEnd
            /\ ex_i' = 0
            /\ completed_tasks' = {}
            /\ idx' = 0
            /\ elapsed' = 0
            /\ ResetPollHist
            /\ save_count' = [s \in Subjects |-> 0]
            /\ UNCHANGED saveVars
    /\ UNCHANGED <<syncVars, mode, run, disk, alt_disk, existing_results, names,
                   batch_size, max_wait_time, batch, names_to_process, i,
                   task_mapping, next_run, timed_out, committed, create_log,
                   last_save, handles, dispHist, prev_pass, poolVars, searchVars, callArgs, scrapeVars, exc_before,
                   succeeded, term_failed, chunks>>

----------------------------------------------------------------------------
(* CareerStructurer.process_all_people and process_batch                   *)

max_workers == 100

(* faulty variant: the executor starts a thread for every queued unit      *)
FreeThreadAlways(running) == TRUE

(* ThreadPoolExecutor(max_workers=100): a queued unit is taken by an idle  *)
(* thread, or by a new thread while fewer than max_workers exist           *)
FreeThread(running) == running < max_workers

InputKeys == [k \in DOMAIN input_data |-> input_data[k].name]

(* input_data.get(name, "")                                                *)
RawOf(s) ==
    IF \E k \in DOMAIN input_data : input_data[k].name = s
    THEN input_data[CHOOSE k \in DOMAIN input_data : input_data[k].name = s].raw
    ELSE ""

(* [name for name in input_data.keys() if name not in existing_results]    *)
PeopleToProcess(keys, existing) == Filter(keys, existing)

(* len(batches)                                                            *)
NumBatches == (Len(people_to_process) + batch_size - 1) \div batch_size

(* faulty variant: the test on the stripped text is missing                 *)
UsableUnstripped(raw) == raw \notin {NULL, ""}

(* not (not raw_career_info or raw_career_info.strip() == "")              *)
Usable(raw) == raw \notin {NULL, "", BLANK}

(* what a work unit can end with: structured data, None (OpenAI error,     *)
(* unparseable or empty JSON), or an exception in the worker               *)
Outcomes(raw) == IF Usable(raw) THEN {"data", "none", "raised"} ELSE {"none"}

(* what process_batch saves for a finished future                          *)
RecordOf(result) == IF result = "data" THEN CONTENT ELSE NULL

(* the second execution: the same outcome, except that one failing call   *)
(* of the batch may succeed in it                                          *)
AltOutcomes(s, o) ==
    IF alt_x = "" /\ Usable(RawOf(s)) /\ o # "data" THEN {o, "data"} ELSE {o}

Running == {s \in Subjects : fstate[s] = "running"}

SetOf(seq) == {seq[k] : k \in DOMAIN seq}

(* faulty variant: process_batch returns once one future has been collected*)
AnyCollected == collected # {}

(* the for loop over as_completed(future_to_person) has ended              *)
AllCollected == collected = SetOf(batch)

PapStart ==
    /\ pc = "pap_start"
    /\ mode = "sync"
    /\ LET ex == load_existing_results(disk)
           todo == PeopleToProcess(InputKeys, ex)
       IN /\ existing_results' = ex
          /\ people_to_process' = todo
          /\ IF todo = <<>>
             THEN /\ pc' = "returned"
                  /\ batch_num' = 0
             ELSE /\ pc' = "pb_submit"
                  /\ batch_num' = 1
    /\ UNCHANGED <<input_data, fstate, fresult, collected, complete_log,
                   alt_x, alt_fresult, mode, run, disk, alt_disk, asyncVars, saveVars, committed, create_log,
                   pollHist,
                   saveHist, dispHist, prev_pass, poolVars, searchVars, callArgs, scrapeVars,
                   excVars, runHist>>

(* executor.submit(self.process_single_person, ...) for the whole batch    *)
PbSubmit ==
    /\ pc = "pb_submit"
    /\ LET b == Chunk(people_to_process, (batch_num - 1) * batch_size, batch_size)
       IN /\ batch' = b
          /\ fstate' = [s \in Subjects |-> IF s \in SetOf(b) THEN "pending" ELSE "none"]
    /\ fresult' = [s \in Subjects |-> "none"]
    /\ alt_fresult' = [s \in Subjects |-> "none"]
    /\ alt_x' = ""
    /\ alt_disk' = disk
    /\ collected' = {}
    /\ save_count' = [s \in Subjects |-> 0]
    /\ chunks' = Append(chunks, batch')
    /\ pc' = "pb_collect"
    /\ UNCHANGED <<input_data, people_to_process, batch_num, complete_log,
                   mode, run, disk, existing_results, names, batch_size,
                   max_wait_time, batch_start, names_to_process, i,
                   task_mapping, next_run, completed_tasks, idx, timed_out,
                   elapsed, saveVars, committed, create_log, pollHist,
                   last_save, handles, dispHist, prev_pass, poolVars, searchVars, callArgs, scrapeVars,
                   excVars, succeeded, term_failed, paused>>

(* a pool thread takes a unit: process_single_person begins and, if there  *)
(* is career text, calls the completion API                                *)
WorkerStart(s) ==
    /\ fstate[s] = "pending"
    /\ FreeThread(Cardinality(Running))
    /\ fstate' = [fstate EXCEPT ![s] = "running"]
    /\ complete_log' = IF Usable(RawOf(s)) THEN complete_log \cup {s}
                       ELSE complete_log
    /\ UNCHANGED <<input_data, people_to_process, batch_num, fresult, collected,
                   alt_x, alt_fresult, mode, run, pc, disk, alt_disk, existing_results, asyncVars, saveVars,
                   committed, create_log, pollHist,
                   saveHist, dispHist, prev_pass, poolVars, searchVars, callArgs, scrapeVars,
                   excVars, runHist>>

(* process_single_person returns or raises: the future is done             *)
WorkerFinish(s) ==
    /\ fstate[s] = "running"
    /\ \E o \in Outcomes(RawOf(s)) :
          /\ fresult' = [fresult EXCEPT ![s] = o]
          /\ \E o2 \in AltOutcomes(s, o) :
                /\ alt_fresult' = [alt_fresult EXCEPT ![s] = o2]
                /\ alt_x' = IF o2 # o THEN s ELSE alt_x
    /\ fstate' = [fstate EXCEPT ![s] = "done"]
    /\ succeeded' = IF fresult'[s] = "data" THEN succeeded \cup {s} ELSE succeeded
    /\ term_failed' = IF fresult'[s] = "data" THEN term_failed
                      ELSE term_failed \cup {s}
    /\ UNCHANGED <<input_data, people_to_process, batch_num, collected,
                   complete_log, mode, run, pc, disk, alt_disk, existing_results,
                   asyncVars, saveVars, committed, create_log, pollHist,
                   saveHist, dispHist, prev_pass, poolVars, searchVars, callArgs, scrapeVars,
                   excVars, chunks, paused>>

(* faulty variant: future.result() is not wrapped in try/except, so a unit that *)
(* raised ends the collection loop                                         *)
CollectNoCatch(s) ==
    /\ pc = "pb_collect"
    /\ fstate[s] = "done"
    /\ s \notin collected
    /\ IF fresult[s] = "raised"
       THEN /\ collected' = SetOf(batch)
            /\ UNCHANGED <<pc, saveVars>>
       ELSE /\ collected' = collected \cup {s}
            /\ BeginSave2(s, RecordOf(fresult[s]), RecordOf(alt_fresult[s]),
                          "pb_collect")
    /\ UNCHANGED <<input_data, people_to_process, batch_num, fstate, fresult,
                   complete_log, alt_x, alt_fresult, mode, run, disk, alt_disk,
                   existing_results, asyncVars, committed, create_log, pollHist,
                   saveHist, dispHist, prev_pass, poolVars, searchVars, callArgs, scrapeVars,
                   excVars, runHist>>

(* faulty variant: the results are collected once every unit is done     *)
CollectAfterAll(s) ==
    /\ pc = "pb_collect"
    /\ fstate[s] = "done"
    /\ s \notin collected
    /\ \A t \in SetOf(batch) : fstate[t] = "done"
    /\ collected' = collected \cup {s}
    /\ BeginSave2(s, RecordOf(fresult[s]), RecordOf(alt_fresult[s]), "pb_collect")
    /\ UNCHANGED <<input_data, people_to_process, batch_num, fstate, fresult,
                   complete_log, alt_x, alt_fresult, mode, run, disk, alt_disk, existing_results, asyncVars,
                   committed, create_log, pollHist,
                   saveHist, dispHist, prev_pass, poolVars, searchVars, callArgs, scrapeVars,
                   excVars, runHist>>

(* faulty variant: a future already collected is collected again          *)
CollectAgain(s) ==
    /\ pc = "pb_collect"
    /\ fstate[s] = "done"
    /\ collected' = collected \cup {s}
    /\ BeginSave2(s, RecordOf(fresult[s]), RecordOf(alt_fresult[s]), "pb_collect")
    /\ UNCHANGED <<input_data, people_to_process, batch_num, fstate, fresult,
                   complete_log, alt_x, alt_fresult, mode, run, disk, alt_disk, existing_results, asyncVars,
                   committed, create_log, pollHist,
                   saveHist, dispHist, prev_pass, poolVars, searchVars, callArgs, scrapeVars,
                   excVars, runHist>>

(* as_completed yields a done future; the main thread saves its result     *)
Collect(s) ==
    /\ pc = "pb_collect"
    /\ fstate[s] = "done"
    /\ s \notin collected
    /\ collected' = collected \cup {s}
    /\ BeginSave2(s, RecordOf(fresult[s]), RecordOf(alt_fresult[s]), "pb_collect")
    /\ UNCHANGED <<input_data, people_to_process, batch_num, fstate, fresult,
                   complete_log, alt_x, alt_fresult, mode, run, disk, alt_disk, existing_results, asyncVars,
                   committed, create_log, pollHist,
                   saveHist, dispHist, prev_pass, poolVars, searchVars, callArgs, scrapeVars,
                   excVars, runHist>>

(* as_completed is exhausted and the executor shuts down: process_batch    *)
(* returns                                                                 *)
PbReturn ==
    /\ pc = "pb_collect"
    /\ AllCollected
    /\ pc' = "pb_returned"
    /\ UNCHANGED <<syncVars, mode, run, disk, alt_disk, existing_results, asyncVars,
                   saveVars, committed, create_log, pollHist,
                   saveHist, dispHist, prev_pass, poolVars, searchVars, callArgs, scrapeVars,
                   excVars, runHist>>

(* faulty variant: the pause is half as long                               *)
InterBatchSleepHalf == BatchPause \div 2

(* time.sleep(2) between two batches                                       *)
InterBatchSleep == BatchPause

(* the 2 second pause and the next batch, or the end of the run            *)
NextBatch ==
    /\ pc = "pb_returned"
    /\ IF batch_num < NumBatches
       THEN /\ batch_num' = batch_num + 1
            /\ paused' = InterBatchSleep
            /\ pc' = "pb_submit"
       ELSE /\ pc' = "returned"
            /\ UNCHANGED <<batch_num, paused>>
    /\ fstate' = [s \in Subjects |-> "none"]
    /\ fresult' = [s \in Subjects |-> "none"]
    /\ alt_fresult' = [s \in Subjects |-> "none"]
    /\ alt_x' = ""
    /\ alt_disk' = disk
    /\ collected' = {}
    /\ UNCHANGED <<input_data, people_to_process, complete_log, mode, run, disk,
                   existing_results, asyncVars, saveVars, committed, create_log,
                   pollHist,
                   saveHist, dispHist, prev_pass, poolVars, searchVars, callArgs, scrapeVars,
                   excVars, succeeded, term_failed, chunks>>

----------------------------------------------------------------------------
(* The process dies (kill, power loss) at any point of a run, and a later  *)
(* run of the same command starts on the same file.                        *)

ResetLocals ==
    /\ batch_start' = 0
    /\ batch' = <<>>
    /\ existing_results' = EmptyMap
    /\ names_to_process' = <<>>
    /\ i' = 0
    /\ task_mapping' = <<>>
    /\ next_run' = 1
    /\ completed_tasks' = {}
    /\ idx' = 0
    /\ timed_out' = {}
    /\ elapsed' = 0
    /\ ResetSave
    /\ create_log' = {}
    /\ ResetPollHist
    /\ ResetSyncLocals
    /\ ResetSaveHist
    /\ ResetDispHist
    /\ ResetRunHist

Crash ==
    /\ pc \notin {"returned", "crashed"}
    /\ pc' = "crashed"
    /\ ResetLocals
    /\ alt_disk' = disk
    /\ UNCHANGED <<input_data, mode, run, disk, names, batch_size,
                   max_wait_time, committed,
                   prev_pass, poolVars, searchVars, callArgs, scrapeVars>>

Restart ==
    /\ pc \in {"returned", "crashed"}
    /\ run < MaxRuns
    /\ run' = run + 1
    /\ prev_pass' = IF pc = "returned"
                    THEN [done |-> TRUE, map |-> load_existing_results(disk)]
                    ELSE NoPass
    /\ pc' = IF mode = "async" THEN "pan_start" ELSE "pap_start"
    /\ ResetLocals
    /\ committed' = load_existing_results(disk)
    /\ UNCHANGED <<input_data, mode, disk, alt_disk, names, batch_size,
                   max_wait_time, poolVars, searchVars, callArgs, scrapeVars>>

----------------------------------------------------------------------------
(* The thread pool of process_batch for batches larger than the pool.     *)
(* The units are interchangeable here: the model counts those submitted,   *)
(* those a pool thread is executing and those whose future is done.        *)

PoolBatchLens == {1, max_workers, MaxPoolBatch}

pipelineVars == <<mode, run, pc, disk, alt_disk, existing_results, asyncVars,
                  saveVars, syncVars, committed, create_log, pollHist,
                  saveHist, dispHist, prev_pass, excVars, runHist, callArgs>>

PoolInit ==
    /\ mode = "pool"
    /\ pc = "pool"
    /\ names_arg = <<>>
    /\ max_names = 0
    /\ names = <<>>
    /\ batch_size = 0
    /\ max_wait_time = 0
    /\ input_data = <<>>
    /\ InitLocals
    /\ SearchIdle
    /\ ScrapeIdle
    /\ pool_n \in PoolBatchLens
    /\ pool_submitted = 0
    /\ pool_running = 0
    /\ pool_done = 0

PoolQueued == pool_submitted - pool_running - pool_done

(* executor.submit(...) for the next person of the batch                   *)
PoolSubmit ==
    /\ pool_submitted < pool_n
    /\ pool_submitted' = pool_submitted + 1
    /\ UNCHANGED <<pool_n, pool_running, pool_done, pipelineVars, searchVars,
                   scrapeVars>>

(* a pool thread takes a queued unit and runs process_single_person        *)
PoolWorkerStart ==
    /\ PoolQueued > 0
    /\ FreeThread(pool_running)
    /\ pool_running' = pool_running + 1
    /\ UNCHANGED <<pool_n, pool_submitted, pool_done, pipelineVars, searchVars,
                   scrapeVars>>

(* process_single_person returns or raises; the thread is idle again       *)
PoolWorkerFinish ==
    /\ pool_running > 0
    /\ pool_running' = pool_running - 1
    /\ pool_done' = pool_done + 1
    /\ UNCHANGED <<pool_n, pool_submitted, pipelineVars, searchVars,
                   scrapeVars>>

PoolNext ==
    \/ PoolSubmit
    \/ PoolWorkerStart
    \/ PoolWorkerFinish

PoolSpec == PoolInit /\ [][PoolNext]_vars

----------------------------------------------------------------------------
(* search_alumni of the web application (backend/app.py).  A text is a     *)
(* sequence of characters; a person has a name and a list of jobs; a job   *)
(* has five text fields (an empty text stands for a missing or empty       *)
(* field) and a list of skill tags.                                        *)

MaxData == 3
MaxLimit == 2

(* str.lower() on the characters used here                                 *)
LowerChar(c) == IF c = "A" THEN "a" ELSE IF c = "B" THEN "b" ELSE c

ToLower(t) == [k \in DOMAIN t |-> LowerChar(t[k])]

(* faulty variant: one character of q occurs in t                          *)
ContainsAny(t, q) ==
    \E k \in DOMAIN t : \E j \in DOMAIN q : t[k] = q[j]

(* q in t                                                                  *)
Contains(t, q) ==
    \E k \in 0..(Len(t) - Len(q)) : SubSeq(t, k + 1, k + Len(q)) = q

NoFields ==
    [comp |-> <<>>, title |-> <<>>, loc |-> <<>>, sector |-> <<>>,
     sub_sector |-> <<>>, skill_tags |-> <<>>]

NameTexts == {<<"A">>, <<"b">>, <<"A", "b">>}

JobLists ==
    {<<>>,
     <<[NoFields EXCEPT !.comp = <<"A">>, !.title = <<"b">>]>>,
     <<[NoFields EXCEPT !.loc = <<"b">>],
       [NoFields EXCEPT !.sector = <<"A">>, !.sub_sector = <<"A", "b">>]>>,
     <<[NoFields EXCEPT !.skill_tags = <<<<"A">>, <<"b">>>>]>>,
     <<[NoFields EXCEPT !.skill_tags = <<<<"b">>>>]>>}

Persons == [name : NameTexts, jobs : JobLists]

Datasets == UNION {[1..n -> Persons] : n \in 1..MaxData}

Queries == {<<>>, <<"a">>, <<"a", "B">>}

Limits == 1..MaxLimit

(* the job loop: job.get(f) and query_lower in job[f].lower() for the five *)
(* text fields, then query_lower in tag.lower() for the skill tags         *)
JobMatches(job, query_lower) ==
    \/ job.comp # <<>> /\ Contains(ToLower(job.comp), query_lower)
    \/ job.title # <<>> /\ Contains(ToLower(job.title), query_lower)
    \/ job.loc # <<>> /\ Contains(ToLower(job.loc), query_lower)
    \/ job.sector # <<>> /\ Contains(ToLower(job.sector), query_lower)
    \/ job.sub_sector # <<>> /\ Contains(ToLower(job.sub_sector), query_lower)
    \/ \E k \in DOMAIN job.skill_tags :
          Contains(ToLower(job.skill_tags[k]), query_lower)

(* query_lower in person["name"].lower()                                   *)
NameMatches(person, query_lower) == Contains(ToLower(person.name), query_lower)

(* match_found after the loop over person.get("jobs", [])                  *)
MatchFound(person, query_lower) ==
    \E j \in DOMAIN person.jobs : JobMatches(person.jobs[j], query_lower)

(* the persons with job information, in the order of the dataset           *)
AlumniWithJobs(data) ==
    SelectSeq([k \in DOMAIN data |-> k], LAMBDA k : data[k].jobs # <<>>)

(* list(...)[:limit]                                                       *)
Take(seq, n) == SubSeq(seq, 1, Min(n, Len(seq)))

SearchInit ==
    /\ mode = "search"
    /\ pc = "search"
    /\ names_arg = <<>>
    /\ max_names = 0
    /\ names = <<>>
    /\ batch_size = 0
    /\ max_wait_time = 0
    /\ input_data = <<>>
    /\ InitLocals
    /\ PoolIdle
    /\ ScrapeIdle
    /\ alumni_data \in Datasets
    /\ query \in Queries
    /\ limit \in Limits
    /\ alumni_with_jobs = <<>>
    /\ pos = 0
    /\ results = <<>>
    /\ spc = "start"

(* the filter on jobs and the empty-query return                           *)
SearchStart ==
    /\ spc = "start"
    /\ alumni_with_jobs' = AlumniWithJobs(alumni_data)
    /\ IF query = <<>>
       THEN /\ results' = Take(alumni_with_jobs', limit)
            /\ spc' = "returned"
            /\ UNCHANGED pos
       ELSE /\ results' = <<>>
            /\ pos' = 1
            /\ spc' = "loop"
    /\ UNCHANGED <<alumni_data, query, limit, pipelineVars, poolVars,
                   scrapeVars>>

(* one iteration of for name, person in alumni_with_jobs.items(), or the   *)
(* end of the loop and return results                                      *)
SearchStep ==
    /\ spc = "loop"
    /\ IF pos > Len(alumni_with_jobs)
       THEN /\ spc' = "returned"
            /\ UNCHANGED <<pos, results>>
       ELSE LET person == alumni_data[alumni_with_jobs[pos]]
                query_lower == ToLower(query)
            IN IF NameMatches(person, query_lower)
               THEN /\ results' = Append(results, alumni_with_jobs[pos])
                    /\ pos' = pos + 1
                    /\ UNCHANGED spc
               ELSE /\ results' = IF MatchFound(person, query_lower)
                                  THEN Append(results, alumni_with_jobs[pos])
                                  ELSE results
                    /\ IF Len(results') >= limit
                       THEN /\ spc' = "returned"
                            /\ UNCHANGED pos
                       ELSE /\ pos' = pos + 1
                            /\ UNCHANGED spc
    /\ UNCHANGED <<alumni_data, query, limit, alumni_with_jobs, pipelineVars,
                   poolVars, scrapeVars>>

SearchNext ==
    \/ SearchStart
    \/ SearchStep

SearchSpec == SearchInit /\ [][SearchNext]_vars

----------------------------------------------------------------------------
(* NameScraper.process_empty_name_urls_only (name_scraper.py): the retry   *)
(* of the URLs whose stored record has no names.  The results file maps a  *)
(* URL to a record; of a record only its kind matters here.                *)
MaxUrls == 3

Urls == 1..MaxUrls

(* the order of the keys of the results file                               *)
UrlOrder == [k \in 1..MaxUrls |-> k]

(* a record with names, one with "names": [], one with "names": [] and an  *)
(* "error" entry                                                           *)
WITH_NAMES == "with_names"
NO_NAMES == "no_names"
NO_NAMES_ERROR == "no_names_error"
UrlRecords == {WITH_NAMES, NO_NAMES, NO_NAMES_ERROR}

UrlFiles == UNION {[D -> UrlRecords] : D \in SUBSET Urls}

(* load_existing_results of the scraper: the content of the results file,  *)
(* {} when there is none                                                   *)
LoadUrlResults(file) == file

(* find_urls_with_empty_names: `if not names: empty_urls.append(url)`      *)
FindUrlsWithEmptyNames(file) ==
    SelectSeq(UrlOrder,
              LAMBDA u : u \in DOMAIN LoadUrlResults(file)
                         /\ LoadUrlResults(file)[u] # WITH_NAMES)

(* filter_new_urls                                                         *)
FilterNewUrls(urls, file) ==
    SelectSeq(urls, LAMBDA u : u \notin DOMAIN LoadUrlResults(file))

(* the skip_existing argument process_empty_name_urls_only passes          *)
SkipExisting == FALSE

ScrapeInit ==
    /\ mode = "scrape"
    /\ pc = "scrape"
    /\ names_arg = <<>>
    /\ max_names = 0
    /\ names = <<>>
    /\ batch_size = 0
    /\ max_wait_time = 0
    /\ input_data = <<>>
    /\ InitLocals
    /\ PoolIdle
    /\ alumni_data = <<>>
    /\ query = <<>>
    /\ limit = 0
    /\ alumni_with_jobs = <<>>
    /\ pos = 0
    /\ results = <<>>
    /\ spc = "idle"
    /\ url_file \in UrlFiles
    /\ url_results = EmptyMap
    /\ urls_to_process = <<>>
    /\ url_i = 0
    /\ url_pc = "start"
    /\ url_before = url_file

(* process_empty_name_urls_only up to the for loop of                      *)
(* process_urls_individually(empty_urls, skip_existing=False)              *)
ScrapeStart ==
    /\ url_pc = "start"
    /\ LET empty_urls == FindUrlsWithEmptyNames(url_file)
           todo == IF SkipExisting THEN FilterNewUrls(empty_urls, url_file)
                   ELSE empty_urls
       IN IF empty_urls = <<>>
          THEN /\ url_results' = LoadUrlResults(url_file)
               /\ url_pc' = "returned"
               /\ UNCHANGED <<urls_to_process, url_i>>
          ELSE /\ url_results' = IF SkipExisting THEN LoadUrlResults(url_file)
                                 ELSE EmptyMap
               /\ urls_to_process' = todo
               /\ IF todo = <<>>
                  THEN /\ url_pc' = "returned"
                       /\ UNCHANGED url_i
                  ELSE /\ url_pc' = "loop"
                       /\ url_i' = 1
    /\ UNCHANGED <<url_file, url_before, pipelineVars, poolVars, searchVars>>

(* one iteration of the for loop: process_single_url gives a record (or    *)
(* raises and the except clause builds one), all_results[url] = result,    *)
(* save_results(all_results) overwrites the file; after the last URL the   *)
(* call returns all_results                                                *)
ScrapeUrl ==
    /\ url_pc = "loop"
    /\ IF url_i <= Len(urls_to_process)
       THEN \E result \in UrlRecords :
               /\ url_results' = Put(url_results, urls_to_process[url_i], result)
               /\ url_file' = url_results'
               /\ url_i' = url_i + 1
               /\ UNCHANGED url_pc
       ELSE /\ url_pc' = "returned"
            /\ UNCHANGED <<url_results, url_file, url_i>>
    /\ UNCHANGED <<urls_to_process, url_before, pipelineVars, poolVars,
                   searchVars>>

ScrapeNext ==
    \/ ScrapeStart
    \/ ScrapeUrl

ScrapeSpec == ScrapeInit /\ [][ScrapeNext]_vars

----------------------------------------------------------------------------
Next ==
    \/ PanStart
    \/ PanHead
    \/ SchedCreate
    \/ SchedSleep
    \/ PollHead
    \/ PollIter
    \/ PollResult
    \/ PollMark
    \/ PollTimeouts
    \/ BatchCompleted
    \/ ExceptSave
    \/ SaveOpen
    \/ SaveDump
    \/ PapStart
    \/ PbSubmit
    \/ \E s \in Subjects : WorkerStart(s)
    \/ \E s \in Subjects : WorkerFinish(s)
    \/ \E s \in Subjects : Collect(s)
    \/ PbReturn
    \/ NextBatch
    \/ Crash
    \/ Restart

Spec == Init /\ [][Next]_vars

(* The runs of PersonInfoFinder alone.                                     *)
AsyncNext ==
    \/ PanStart
    \/ PanHead
    \/ SchedCreate
    \/ SchedSleep
    \/ PollHead
    \/ PollIter
    \/ PollResult
    \/ PollMark
    \/ PollTimeouts
    \/ BatchCompleted
    \/ ExceptSave
    \/ SaveOpen
    \/ SaveDump
    \/ Crash
    \/ Restart

AsyncSpec == InitAsync /\ [][AsyncNext]_vars

(* The runs of CareerStructurer alone.                                     *)
SyncNext ==
    \/ SaveOpen
    \/ SaveDump
    \/ PapStart
    \/ PbSubmit
    \/ \E s \in Subjects : WorkerStart(s)
    \/ \E s \in Subjects : WorkerFinish(s)
    \/ \E s \in Subjects : Collect(s)
    \/ PbReturn
    \/ NextBatch
    \/ Crash
    \/ Restart

SyncSpec == InitSync /\ [][SyncNext]_vars

----------------------------------------------------------------------------
(* Properties                                                              *)

Stored == load_existing_results(disk)

AltStored == load_existing_results(alt_disk)

CeilDiv(a, b) == (a + b - 1) \div b

PollReturned == pc = "poll_returned"

BatchReturned == pc = "pb_returned"

(* C1: resumability.  No create request of a dispatch step (async) and no  *)
(* completion request of a run (sync) is for a subject that was a key of   *)
(* the map the step loaded, whatever record was stored for it.             *)
C1_NoRedispatch ==
    /\ create_log \cap DOMAIN existing_results = {}
    /\ complete_log \cap DOMAIN existing_results = {}

(* a later run skips a subject stored with a null failure record while it  *)
(* creates a task for another subject of the same chunk                    *)
C1_Witness ==
    /\ mode = "async"
    /\ run = 2
    /\ create_log # {}
    /\ \E s \in SetOf(batch) :
          s \in DOMAIN existing_results /\ existing_results[s] = NULL

(* C2: total resolution.  When poll_all_tasks has returned, every name of  *)
(* the mapping schedule_all_tasks returned is a key of the stored map,     *)
(* with the one record its save wrote: a payload or a null record.         *)
C2_TotalResolution ==
    PollReturned =>
        \A k \in DOMAIN task_mapping :
            LET name == task_mapping[k].name
            IN /\ name \in DOMAIN Stored
               /\ Stored[name] \in Values
               /\ Stored[name] = committed[name]
               /\ name \in completed_tasks \cup timeout_saved

C2_Witness ==
    /\ PollReturned
    /\ Len(task_mapping) = 2
    /\ \E a \in completed_tasks : Stored[a] = CONTENT
    /\ timeout_saved # {}

(* C3: crash safety of the store.  After a crash, the stored map holds     *)
(* every record whose save_single_result had returned.                     *)
C3_CrashSafe ==
    pc = "crashed" =>
        \A s \in DOMAIN committed :
            s \in DOMAIN Stored /\ Stored[s] = committed[s]

(* C4: no lost updates in the worker pool.  A save cycle writes the map    *)
(* the file held when the cycle loaded it plus its own entry (no other     *)
(* write falls between its load and its write), and when process_batch    *)
(* has returned every subject of the batch is a key of the stored map.     *)
C4_NoLostUpdates ==
    mode = "sync" =>
        /\ pc = "save_open" =>
              all_results = Put(Stored, save_name, all_results[save_name])
        /\ BatchReturned => SetOf(batch) \subseteq DOMAIN Stored

(* a save cycle is in progress while another unit is still running and an  *)
(* earlier cycle of the batch has already written its record               *)
C4_Witness ==
    /\ mode = "sync"
    /\ pc = "save_open"
    /\ Running # {}
    /\ \E s \in SetOf(batch) : s # save_name /\ s \in DOMAIN Stored

(* C5: failure isolation.  Of two executions of a batch that differ only   *)
(* in whether the completion call for one subject (alt_x) fails, both      *)
(* checkpoint the same record for every other subject of the batch.        *)
C5_FailureIsolation ==
    BatchReturned =>
        \A y \in SetOf(batch) \ {alt_x} :
            /\ y \in DOMAIN Stored
            /\ y \in DOMAIN AltStored
            /\ Stored[y] = AltStored[y]

(* the two executions do differ on alt_x, and a sibling has a payload      *)
C5_Witness ==
    /\ BatchReturned
    /\ alt_x \in SetOf(batch)
    /\ fresult[alt_x] = "raised"
    /\ Stored[alt_x] = NULL
    /\ AltStored[alt_x] = CONTENT
    /\ \E y \in SetOf(batch) \ {alt_x} : Stored[y] = CONTENT

(* C6: batch completeness.  When process_batch has returned, every unit    *)
(* of the batch has completed and been collected, and every subject of     *)
(* the batch is stored: with a payload if its unit returned data, with a   *)
(* null record if its unit returned None or raised.                        *)
C6_BatchComplete ==
    BatchReturned =>
        \A s \in SetOf(batch) :
            /\ fstate[s] = "done"
            /\ s \in collected
            /\ s \in DOMAIN Stored
            /\ fresult[s] = "data" => Stored[s] = CONTENT
            /\ fresult[s] \in {"none", "raised"} => Stored[s] = NULL

(* the scenario: A, B, C in one batch, B raises                            *)
C6_Witness ==
    /\ BatchReturned
    /\ batch = <<"A", "B", "C">>
    /\ fresult["A"] = "data" /\ fresult["B"] = "raised" /\ fresult["C"] = "data"
    /\ Stored["A"] = CONTENT /\ Stored["B"] = NULL /\ Stored["C"] = CONTENT

(* C7 as stated: the polling loop ends no later than max_wait_time after   *)
(* poll_all_tasks started.                                                 *)
C7_LoopWithinMaxWait == loop_over => elapsed <= max_wait_time

(* C7 as amended: every tick of the polling loop starts strictly before    *)
(* max_wait_time has elapsed; the loop ends at most the last tick's query  *)
(* time plus one sleep interval after that tick started.                   *)
C7_TicksStartBeforeDeadline ==
    ticks > 0 =>
        /\ tick_start < max_wait_time
        /\ elapsed <= tick_start + tick_lat + SleepInterval

(* the loop has ended after max_wait_time                                  *)
C7_Witness ==
    /\ loop_over
    /\ ticks >= 2
    /\ elapsed > max_wait_time

(* C8 as stated: poll_all_tasks returns within D + T of starting, also     *)
(* when queries take time.                                                 *)
C8_WithinDPlusT ==
    PollReturned => elapsed <= max_wait_time + SleepInterval

(* C8 as amended: poll_all_tasks returns within D + T plus the time spent  *)
(* in the queries of its last tick; with instantaneous queries, within     *)
(* D + T.                                                                  *)
C8_DeadlineBound ==
    PollReturned =>
        /\ elapsed < max_wait_time + SleepInterval + tick_lat
        /\ instant => elapsed <= max_wait_time + SleepInterval

(* a poll that returned later than D + T                                   *)
C8_Witness ==
    /\ PollReturned
    /\ elapsed > max_wait_time + SleepInterval

(* C9: tick count on timeout.  With instantaneous queries, a handle that   *)
(* is never found completed or failed is queried in exactly ceil(D / T)    *)
(* ticks, one query per tick, and is then saved by the timeout             *)
(* finalization with a null record.                                        *)
C9_TickCount ==
    (PollReturned /\ instant) =>
        \A n \in timeout_saved :
            /\ ticks = CeilDiv(max_wait_time, SleepInterval)
            /\ qticks[n] = ticks
            /\ n \in DOMAIN Stored
            /\ Stored[n] = NULL

(* the scenario: deadline 120, tick 60, exactly 2 ticks                    *)
C9_Witness ==
    /\ PollReturned
    /\ instant
    /\ max_wait_time = 120
    /\ ticks = 2
    /\ \E n \in timeout_saved : qticks[n] = 2 /\ Stored[n] = NULL

(* a failure record that carries the error kind timed-out                  *)
TIMED_OUT == "timed_out"

(* C10 as stated: every handle unresolved at the deadline is stored with   *)
(* a failure record tagged as timed-out.                                   *)
C10_TimedOutTagged ==
    PollReturned =>
        \A n \in timeout_saved :
            n \in DOMAIN Stored /\ Stored[n] = TIMED_OUT

(* C10 as amended: every handle unresolved when the loop ends is stored    *)
(* with a null record (None, with no error kind), and no status or result  *)
(* query is issued once the loop has ended.                                *)
C10_TimeoutFinalization ==
    /\ ~late_query
    /\ PollReturned =>
          \A n \in Keys(task_mapping) \ completed_tasks :
              /\ n \in timeout_saved
              /\ n \in DOMAIN Stored
              /\ Stored[n] = NULL

(* a poll that resolved one handle and finalized another by timeout        *)
C10_Witness ==
    /\ PollReturned
    /\ completed_tasks # {}
    /\ \E n \in timeout_saved : n \notin completed_tasks /\ Stored[n] = NULL

(* C11: last-write-wins.  Once save_single_result(s, r) has returned, the  *)
(* stored map has s as a key with the value r, whatever record s had       *)
(* before (the old record is replaced, not merged), and every entry of     *)
(* the stored map is the value of the most recent save of its subject.     *)
C11_LastWriteWins ==
    disk.closed =>
        /\ last_save.name # "" =>
              /\ last_save.name \in DOMAIN Stored
              /\ Stored[last_save.name] = last_save.val
        /\ \A s \in DOMAIN Stored :
              s \in DOMAIN committed /\ Stored[s] = committed[s]

(* a save has replaced the null record of a subject by a payload           *)
C11_Witness ==
    /\ disk.closed
    /\ last_save.name \in DOMAIN last_save.before
    /\ last_save.before[last_save.name] = NULL
    /\ last_save.val = CONTENT
    /\ Stored[last_save.name] = CONTENT

(* C12: frame of save.  Once save_single_result(s, r) has returned, the    *)
(* keys of the stored map are those the file held when the call was made   *)
(* plus s, and every other subject has the record it had before the call.  *)
C12_SaveFrame ==
    (disk.closed /\ last_save.name # "") =>
        /\ DOMAIN Stored = (DOMAIN last_save.before) \cup {last_save.name}
        /\ \A s \in (DOMAIN last_save.before) \ {last_save.name} :
              Stored[s] = last_save.before[s]

(* a save of a new subject into a map that held another subject's payload  *)
C12_Witness ==
    /\ disk.closed
    /\ last_save.name # ""
    /\ last_save.name \notin DOMAIN last_save.before
    /\ \E s \in DOMAIN last_save.before :
          last_save.before[s] = CONTENT /\ Stored[s] = CONTENT

NoRepeats(seq) == \A j, k \in DOMAIN seq : seq[j] = seq[k] => j = k

Occurrences(seq, s) == Cardinality({k \in DOMAIN seq : seq[k] = s})

(* C13: idempotent resumability.  A dispatch step creates tasks for        *)
(* exactly the subjects of its chunk that are not keys of the map it       *)
(* loaded (store seeded with A, chunk [A, B]: only B).  In a run of        *)
(* process_all_names that follows a run on the same list which returned,   *)
(* no task is created at all and the stored map stays what the first pass  *)
(* left: one entry per distinct subject of the list.                       *)
C13_IdempotentResume ==
    mode = "async" =>
        /\ create_log \subseteq SetOf(batch) \ DOMAIN existing_results
        /\ pc = "poll_head" =>
              create_log = SetOf(batch) \ DOMAIN existing_results
        /\ prev_pass.done =>
              /\ create_log = {}
              /\ task_mapping = <<>>
              /\ \A s \in Subjects : handles[s] = 0
              /\ DOMAIN prev_pass.map = SetOf(names)
              /\ disk.closed
              /\ Stored = prev_pass.map

(* a second pass over a list of two distinct subjects has returned         *)
C13_Witness ==
    /\ mode = "async"
    /\ prev_pass.done
    /\ pc = "returned"
    /\ Cardinality(SetOf(names)) = 2
    /\ \E s \in DOMAIN Stored : Stored[s] = CONTENT

(* C14 as stated: at every instant of a run at most one remote task        *)
(* created for a subject is not yet checkpointed, also when the list       *)
(* holds the subject more than once.                                       *)
C14_OneActiveHandle == \A s \in Subjects : handles[s] <= 1

(* C14 as amended: task_mapping holds at most one handle per subject, and  *)
(* the remote tasks created for a subject and not yet checkpointed are at  *)
(* most as many as the occurrences of the subject in the list of the       *)
(* dispatch step: one when the subjects of the list are distinct.          *)
C14_OneHandlePerListedSubject ==
    /\ NoRepeats([k \in DOMAIN task_mapping |-> task_mapping[k].name])
    /\ \A s \in Subjects : handles[s] <= Occurrences(names_to_process, s)
    /\ NoRepeats(names_to_process) => \A s \in Subjects : handles[s] <= 1

(* a chunk that holds A twice: two remote tasks for A, one handle          *)
C14_Witness ==
    /\ handles["A"] = 2
    /\ Len(task_mapping) = 1
    /\ "A" \notin DOMAIN Stored

(* schedule_all_tasks has just returned: to poll_all_tasks, or with an     *)
(* empty mapping to the loop of process_all_names                          *)
SchedReturned ==
    \/ pc = "poll_head" /\ ticks = 0 /\ ~loop_over
    \/ pc = "pan_head" /\ create_log # {} /\ task_mapping = <<>>

FailStored(s) == s \in DOMAIN Stored /\ Stored[s] = NULL

C16_DispatchSpacing ==
    /\ create_gap # -1 => create_gap >= DispatchDelay
    /\ (pc = "sched_sleep" /\ i >= 2) => create_gap >= DispatchDelay

(* the second request follows a failed first one after exactly the delay   *)
C16_Witness ==
    /\ pc = "sched_sleep"
    /\ i = 2
    /\ create_gap = DispatchDelay
    /\ names_to_process[1] \in create_failed

(* C17: bounded concurrency.  At every instant of process_batch at most    *)
(* max_workers units are executing, for batches smaller than, equal to     *)
(* and larger than the pool; in the pipeline model the same holds of the   *)
(* running futures.                                                        *)
C17_BoundedConcurrency ==
    /\ pool_running <= max_workers
    /\ Cardinality(Running) <= max_workers

(* the pool is full while a submitted unit waits in the queue              *)
C17_Witness ==
    /\ pool_n > max_workers
    /\ pool_running = max_workers
    /\ PoolQueued > 0

InBatch == mode = "sync" /\ pc \in {"pb_collect", "save_open", "save_dump", "pb_returned"}

(* C18: immediate checkpoint in the worker pool.  Between two saves of     *)
(* the collection loop every collected unit is in the stored map with its  *)
(* record, and a done unit can be collected and saved whatever the state   *)
(* of its siblings.                                                        *)
C18_ImmediateCheckpointPool ==
    (mode = "sync" /\ pc = "pb_collect") =>
        /\ \A s \in collected :
              s \in DOMAIN Stored /\ Stored[s] = RecordOf(fresult[s])
        /\ \A s \in Subjects :
              (fstate[s] = "done" /\ s \notin collected) => ENABLED Collect(s)

(* a payload is stored while a sibling is running and another has not      *)
(* started                                                                 *)
C18_Witness ==
    /\ mode = "sync"
    /\ pc = "pb_collect"
    /\ Running # {}
    /\ \E s \in Subjects : fstate[s] = "pending"
    /\ \E s \in collected : Stored[s] = CONTENT

(* C19: exactly-once checkpoint per unit.  During process_batch no         *)
(* subject is saved twice, a subject is saved only once its own unit is    *)
(* done, no subject outside the batch is saved, and when process_batch     *)
(* has returned every subject of the batch has been saved once.            *)
C19_ExactlyOncePool ==
    InBatch =>
        /\ \A s \in Subjects :
              /\ save_count[s] <= 1
              /\ save_count[s] = 1 => (s \in collected /\ fstate[s] = "done")
              /\ s \notin SetOf(batch) => save_count[s] = 0
        /\ BatchReturned => \A s \in SetOf(batch) : save_count[s] = 1

(* the last submitted unit of three was saved first, a sibling raised      *)
C19_Witness ==
    /\ mode = "sync"
    /\ pc = "pb_collect"
    /\ batch = <<"A", "B", "C">>
    /\ save_count["C"] = 1 /\ save_count["A"] = 0 /\ save_count["B"] = 0
    /\ fresult["B"] = "raised"

(* C20: immediate checkpoint in the poll loop.  Whenever the loop is       *)
(* about to query the next handle (or to sleep), every handle a status     *)
(* query of this poll found completed or failed is already stored and      *)
(* marked completed.                                                       *)
C20_ImmediateCheckpointPoll ==
    (mode = "async" /\ pc = "poll_iter") =>
        \A n \in resolved :
            /\ n \in DOMAIN Stored
            /\ Stored[n] = committed[n]
            /\ n \in completed_tasks

(* the first handle is stored with its payload when the second is about    *)
(* to be queried                                                           *)
C20_Witness ==
    /\ mode = "async"
    /\ pc = "poll_iter"
    /\ Len(task_mapping) = 2
    /\ idx = 2
    /\ task_mapping[1].name \in resolved
    /\ Stored[task_mapping[1].name] = CONTENT
    /\ task_mapping[2].name \notin DOMAIN Stored

(* the names of task_mapping the for loop of the current tick has passed   *)
Passed == {task_mapping[k].name : k \in 1..Min(idx - 1, Len(task_mapping))}

(* C21: poll tick resolution rule.  Inside a tick, for every handle the    *)
(* tick has queried: status completed means it is marked completed and     *)
(* stored with the fetched content (null when the result fetch failed);    *)
(* status failed means it is marked completed and stored with null; any    *)
(* other status means it is not marked completed and was not saved in      *)
(* this tick.                                                              *)
C21_TickResolution ==
    (mode = "async" /\ pc = "poll_iter") =>
        \A n \in Passed :
            tick_q[n] = 1 =>
                IF last_status[n] = "completed"
                THEN /\ n \in completed_tasks
                     /\ n \in tick_saved
                     /\ n \in DOMAIN Stored
                     /\ Stored[n] = IF n \in fetched_ok THEN CONTENT ELSE NULL
                ELSE IF last_status[n] = "failed"
                THEN /\ n \in completed_tasks
                     /\ n \in tick_saved
                     /\ n \in DOMAIN Stored
                     /\ Stored[n] = NULL
                ELSE /\ n \notin completed_tasks
                     /\ n \notin tick_saved

(* at the end of a tick one handle was found completed and is stored with  *)
(* its content, the other was found running and is still unresolved        *)
C21_Witness ==
    /\ mode = "async"
    /\ pc = "poll_iter"
    /\ idx > Len(task_mapping)
    /\ \E n, m \in Keys(task_mapping) :
          /\ tick_q[n] = 1 /\ tick_q[m] = 1
          /\ last_status[n] = "completed" /\ Stored[n] = CONTENT
          /\ n \in tick_saved /\ n \in fetched_ok
          /\ last_status[m] = "running"
          /\ m \notin completed_tasks /\ m \notin DOMAIN Stored

(* C22: one status query per unresolved handle per tick.  Inside a tick    *)
(* no handle has been queried twice; of the handles the for loop has        *)
(* passed, those unresolved at the start of the tick have been queried     *)
(* once and those resolved in an earlier tick not at all; the handles      *)
(* the loop has not reached have not been queried.                         *)
C22_OneQueryPerTick ==
    (mode = "async" /\ pc = "poll_iter") =>
        \A n \in Keys(task_mapping) :
            tick_q[n] = IF n \in Passed /\ ~(n \in completed_tasks \ tick_saved)
                        THEN 1 ELSE 0

(* the second tick is over: the handle resolved in the first tick was not  *)
(* queried in it, the other one was queried once                           *)
C22_Witness ==
    /\ mode = "async"
    /\ pc = "poll_iter"
    /\ idx > Len(task_mapping)
    /\ ticks >= 2
    /\ \E n, m \in Keys(task_mapping) :
          /\ n \in completed_tasks \ tick_saved /\ tick_q[n] = 0
          /\ qticks[n] = 1
          /\ tick_q[m] = 1 /\ qticks[m] = 2

(* the next step of the run issues a remote request for subject n: a       *)
(* create, a status query, a result fetch, or the structuring call         *)
AboutToRequest(n) ==
    IF mode = "async"
    THEN \/ pc = "sched_create" /\ names_to_process[i] = n
         \/ /\ pc = "poll_iter"
            /\ idx <= Len(task_mapping)
            /\ task_mapping[idx].name = n
            /\ n \notin completed_tasks
         \/ pc = "poll_result" /\ task_mapping[idx].name = n
    ELSE mode = "sync" /\ pc = "pb_collect" /\ fstate[n] = "pending"

(* C23 as stated: after a creation failure, a failed status query or       *)
(* result fetch, a content failure or a timeout for a subject, no further  *)
(* remote request is issued for that subject in the same run.              *)
C23_NoRequestAfterFailure ==
    NoRepeats(names) =>
        \A n \in Subjects :
            AboutToRequest(n) =>
                /\ n \notin term_failed
                /\ qfail # n

(* C23, amended: after a failed create, a remote status failed, a failed   *)
(* result fetch, a structuring call that failed or a timeout for a         *)
(* subject, no further remote request is issued for that subject in the    *)
(* same run (subject list without repeats).  A status query that itself    *)
(* failed is not in the list: the handle is queried again in the next      *)
(* tick.                                                                   *)
C23_TerminalFailures ==
    NoRepeats(names) =>
        \A n \in Subjects : AboutToRequest(n) => n \notin term_failed

(* a handle failed in an earlier tick and the other handle of the chunk    *)
(* is about to be queried in a later tick                                  *)
C23_Witness ==
    /\ mode = "async"
    /\ NoRepeats(names)
    /\ pc = "poll_iter"
    /\ ticks >= 2
    /\ \E n, m \in Keys(task_mapping) :
          /\ n \in term_failed /\ n \in completed_tasks /\ tick_q[n] = 0
          /\ AboutToRequest(m)

(* a failure record that names its error kind                              *)
ErrorRecords ==
    {"null:creation_failed", "null:query_failed", "null:content_failed",
     "null:timed_out", "null:chunk_failed"}

(* C24 as stated: every failure path stores an absent payload together     *)
(* with an error kind, and a stored record has a payload if and only if    *)
(* the subject's work succeeded.                                           *)
C24_TaggedFailureRecords ==
    \A s \in DOMAIN Stored :
        IF s \in succeeded
        THEN Stored[s] = CONTENT
        ELSE Stored[s] \in ErrorRecords

(* C24, amended: every failure path stores JSON null, with no error kind.  *)
(* A stored payload belongs to a subject whose work succeeded; inside a    *)
(* poll every handle whose result was fetched is stored with its payload,  *)
(* and inside process_batch every collected unit is stored with its        *)
(* payload exactly when it produced data.                                  *)
C24_NullOnFailure ==
    /\ \A s \in DOMAIN Stored :
          /\ Stored[s] \in {NULL, CONTENT}
          /\ Stored[s] = CONTENT => s \in succeeded
    /\ (mode = "async" /\ pc = "poll_iter") =>
          \A s \in fetched_ok : s \in DOMAIN Stored /\ Stored[s] = CONTENT
    /\ (mode = "sync" /\ pc = "pb_collect") =>
          \A s \in collected :
              /\ s \in DOMAIN Stored
              /\ (Stored[s] = CONTENT) = (s \in succeeded)

(* a chunk ended with a payload stored for one subject and null for a      *)
(* subject that failed                                                     *)
C24_Witness ==
    /\ mode = "async"
    /\ pc = "pan_head"
    /\ \E s \in succeeded : s \in DOMAIN Stored /\ Stored[s] = CONTENT
    /\ \E t \in term_failed : t \in DOMAIN Stored /\ Stored[t] = NULL

(* C25: scope of mass failure marking.  When the except clause of          *)
(* process_all_names has run for a chunk, every record the file held       *)
(* when the exception was raised is unchanged, and the names of the        *)
(* chunk that were not stored are stored with null.                        *)
C25_MassMarkScope ==
    (mode = "async" /\ pc = "pan_head" /\ exc_before.raised) =>
        /\ \A s \in DOMAIN exc_before.map :
              s \in DOMAIN Stored /\ Stored[s] = exc_before.map[s]
        /\ \A s \in SetOf(batch) \ DOMAIN exc_before.map :
              s \in DOMAIN Stored /\ Stored[s] = NULL

(* the except clause has run for a chunk of which one subject was          *)
(* already stored with its payload                                         *)
C25_Witness ==
    /\ mode = "async"
    /\ pc = "pan_head"
    /\ exc_before.raised
    /\ \E s \in SetOf(batch) :
          s \in DOMAIN exc_before.map /\ exc_before.map[s] = CONTENT

(* the chunks process_all_names takes from its list                        *)
ExpectedChunks ==
    [k \in 1..CeilDiv(Len(names), batch_size) |->
        Chunk(names, (k - 1) * batch_size, batch_size)]

(* C26: the run survives chunk failures.  When process_all_names has       *)
(* returned, whatever failed on the way, every chunk of the list has been  *)
(* handed to the dispatch step, in order, and every name of the list is    *)
(* stored; while it runs, the chunks taken so far are the first ones of    *)
(* the list.                                                               *)
C26_RunSurvives ==
    (mode = "async" /\ pc \notin {"crashed"}) =>
        /\ Len(chunks) <= Len(ExpectedChunks)
        /\ \A k \in 1..Len(chunks) : chunks[k] = ExpectedChunks[k]
        /\ pc = "returned" =>
              /\ chunks = ExpectedChunks
              /\ \A n \in SetOf(names) : n \in DOMAIN Stored

(* the run has returned; an exception escaped its first chunk, whose       *)
(* subject is stored with null, and the second chunk was dispatched and    *)
(* polled to a payload                                                     *)
C26_Witness ==
    /\ mode = "async"
    /\ pc = "returned"
    /\ NoRepeats(names)
    /\ exc_before.count = 1
    /\ Len(chunks) = 2
    /\ \A s \in SetOf(chunks[1]) : Stored[s] = NULL
    /\ \A s \in SetOf(chunks[2]) : Stored[s] = CONTENT

(* the subjects of the chunks before the current one                       *)
EarlierChunks == UNION {SetOf(chunks[k]) : k \in 1..(Len(chunks) - 1)}

(* C27: chunks are processed sequentially.  Async: when a create request   *)
(* of a chunk is about to be issued, every subject of the earlier chunks   *)
(* is stored and no status query of the current chunk has been issued;     *)
(* when a status query or result fetch is about to be issued, every        *)
(* create request of the chunk has been made.  Sync: while a unit of the   *)
(* current batch is pending or running, every unit of the earlier batches  *)
(* is stored, and no unit outside the current batch is pending or running. *)
C27_SequentialChunks ==
    /\ (mode = "async" /\ pc \in {"sched_create", "sched_sleep"}) =>
          /\ \A n \in EarlierChunks : n \in DOMAIN Stored
          /\ ticks = 0
          /\ \A n \in Subjects : qticks[n] = 0
    /\ (mode = "async" /\ pc \in {"poll_head", "poll_iter", "poll_result"}) =>
          /\ create_log = SetOf(names_to_process)
          /\ Keys(task_mapping) \subseteq create_log
    /\ (mode = "sync" /\ pc = "pb_collect") =>
          /\ \A s \in Subjects :
                fstate[s] \in {"pending", "running"} => s \in SetOf(batch)
          /\ disk.closed => \A s \in EarlierChunks : s \in DOMAIN Stored

(* the first create request of the second chunk is about to be issued      *)
(* after the first chunk was polled to a payload                           *)
C27_Witness ==
    /\ mode = "async"
    /\ pc = "sched_create"
    /\ i = 1
    /\ Len(chunks) = 2
    /\ \A n \in SetOf(chunks[1]) : n \in DOMAIN Stored /\ Stored[n] = CONTENT
    /\ names_to_process[1] \notin DOMAIN Stored

(* the chunks taken so far are pairwise disjoint, none is longer than      *)
(* batch_size and all but the last one hold exactly batch_size subjects    *)
ChunkShape ==
    /\ \A k \in 1..Len(chunks) :
          /\ Len(chunks[k]) >= 1
          /\ Len(chunks[k]) <= batch_size
          /\ k < Len(chunks) => Len(chunks[k]) = batch_size
    /\ \A j, k \in 1..Len(chunks) :
          j # k => SetOf(chunks[j]) \cap SetOf(chunks[k]) = {}

LaterChunkStarts ==
    \/ mode = "sync" /\ pc = "pb_submit" /\ batch_num > 1
    \/ mode = "async" /\ pc = "sched_create" /\ i = 1 /\ Len(chunks) > 1

(* C29 as stated: in both coordinators a fixed pause lies between the end  *)
(* of a chunk and the first external request of the next one.              *)
C29_PauseBothCoordinators ==
    LaterChunkStarts => paused > 0

(* C29, amended: process_all_people sleeps 2 seconds between the end of a  *)
(* batch and the submission of the next one, and not after the last one;   *)
(* process_all_names goes from the end of a chunk to the first create      *)
(* request of the next one without any pause.                              *)
C29_PauseSyncOnly ==
    /\ LaterChunkStarts => paused = IF mode = "sync" THEN BatchPause ELSE 0
    /\ (mode = "sync" /\ pc = "returned" /\ Len(chunks) = 1) => paused = -1

(* the second batch of process_all_people is about to be submitted after   *)
(* the pause                                                               *)
C29_Witness ==
    /\ mode = "sync"
    /\ pc = "pb_submit"
    /\ batch_num = 2
    /\ Len(chunks) = 1
    /\ paused = BatchPause

(* the records of the dataset that have jobs and match the query, by name  *)
(* or by a job, in the order of the dataset                                *)
AllMatches ==
    SelectSeq(AlumniWithJobs(alumni_data),
              LAMBDA k : \/ NameMatches(alumni_data[k], ToLower(query))
                         \/ MatchFound(alumni_data[k], ToLower(query)))

(* C30: search result bound.  When search_alumni has returned, for a       *)
(* limit K >= 1, it has returned at most K records and they are the first  *)
(* K matching records in the order of the dataset.                         *)
C30_SearchBound ==
    (spc = "returned" /\ limit >= 1) =>
        /\ Len(results) <= limit
        /\ results = Take(AllMatches, limit)

(* a search returned exactly the first K of more than K matches, the       *)
(* first of them found by name                                             *)
C30_Witness ==
    /\ spc = "returned"
    /\ query # <<>>
    /\ Len(AllMatches) > limit
    /\ results = Take(AllMatches, limit)
    /\ NameMatches(alumni_data[results[1]], ToLower(query))


(* the sleep the tick that has just ended took, and the time at which it   *)
(* began                                                                   *)
AfterTick == mode = "async" /\ pc = "poll_head" /\ ticks > 0

Slept == elapsed - tick_start - tick_lat

Unresolved == Cardinality(completed_tasks) < Len(task_mapping)

(* C31 as stated: after a tick poll_all_tasks sleeps the fixed interval if *)
(* and only if the unresolved set is non-empty and the deadline had not    *)
(* elapsed when the sleep began; otherwise it does not sleep.              *)
C31_SleepRule ==
    AfterTick =>
        /\ Slept \in {0, SleepInterval}
        /\ Slept = SleepInterval <=>
              (Unresolved /\ elapsed - Slept < max_wait_time)

(* C31, amended: after a tick poll_all_tasks sleeps the fixed interval if  *)
(* and only if the unresolved set is non-empty, and does not sleep once    *)
(* every handle is resolved; the deadline is not consulted before the      *)
(* sleep, and only with instantaneous queries is it certain not to have    *)
(* elapsed when the sleep begins.                                          *)
C31_SleepIffUnresolved ==
    AfterTick =>
        /\ Slept \in {0, SleepInterval}
        /\ Slept = SleepInterval <=> Unresolved
        /\ (instant /\ Slept = SleepInterval) =>
              elapsed - Slept < max_wait_time

(* a tick whose queries ran past the deadline was followed by the sleep;   *)
(* another handle of the same poll is resolved                             *)
C31_Witness ==
    /\ AfterTick
    /\ Slept = SleepInterval
    /\ elapsed - Slept >= max_wait_time
    /\ completed_tasks # {}


(* The steps of the program itself.  While the process lives it keeps      *)
(* running: every call of the remote API returns (requests are made with   *)
(* timeout=30), every sleep ends and every file operation completes.       *)
Progress ==
    \/ PanStart
    \/ PanHead
    \/ SchedCreate
    \/ SchedSleep
    \/ PollHead
    \/ PollIter
    \/ PollResult
    \/ PollMark
    \/ PollTimeouts
    \/ BatchCompleted
    \/ ExceptSave
    \/ SaveOpen
    \/ SaveDump

(* One run of process_all_names that nothing kills.                        *)
RunLiveSpec == InitAsync /\ [][Progress]_vars /\ WF_vars(Progress)

(* One call of process_all_names(names, batch_size, max_names) on a new    *)
(* store, with a max_names argument; 0 stands for None.                    *)
MaxNamesArgs == 0..MaxNames

InitCover ==
    /\ mode = "async"
    /\ pc = "pan_start"
    /\ names_arg \in NameLists
    /\ max_names \in MaxNamesArgs
    /\ names = <<>>
    /\ batch_size \in BatchSizes
    /\ max_wait_time \in MaxWaits
    /\ input_data = <<>>
    /\ InitLocals
    /\ PoolIdle
    /\ SearchIdle
    /\ ScrapeIdle

CoverSpec == InitCover /\ [][Progress]_vars

(* a call of poll_all_tasks is in progress, its saves included            *)
InPoll ==
    /\ mode = "async"
    /\ \/ pc \in {"poll_head", "poll_iter", "poll_result", "poll_mark",
                  "poll_timeouts"}
       \/ /\ pc \in {"save_open", "save_dump"}
          /\ save_ret \in {"poll_mark", "poll_timeouts"}

(* no handle of the chunk is left: each name of the mapping has been saved *)
(* and no remote task created by the run awaits its checkpoint             *)
NoHandleLeft ==
    /\ timed_out = {}
    /\ Keys(task_mapping) = completed_tasks \cup timeout_saved
    /\ \A s \in Subjects : handles[s] = 0

(* an exception has just reached the except clause of process_all_names    *)
Raised == pc = "except_save" /\ ex_i = 1

(* C32 as stated: whatever the status and result calls return, also when   *)
(* no handle is ever found completed or failed, a poll that has begun      *)
(* ends, it ends by returning, and no handle of the chunk is left then.    *)
C32_PollReturns ==
    /\ InPoll ~> ~InPoll
    /\ [][(InPoll /\ ~InPoll') => PollReturned']_vars
    /\ [](PollReturned => NoHandleLeft)

(* C32, amended: whatever the status and result calls return, also when    *)
(* no handle is ever found completed or failed, a poll that has begun      *)
(* ends: either poll_all_tasks returns, and no handle of the chunk is left *)
(* then, or a status value that cannot be counted (a JSON object or array) *)
(* raises in it and the except clause of process_all_names takes over.     *)
C32_PollTerminates ==
    /\ InPoll ~> ~InPoll
    /\ [][(InPoll /\ ~InPoll') => (PollReturned' \/ Raised')]_vars
    /\ [](PollReturned => NoHandleLeft)

(* a poll in which no handle was ever found completed or failed has        *)
(* returned after more than one tick, every handle finalized by timeout    *)
C32_Witness ==
    /\ PollReturned
    /\ NoHandleLeft
    /\ ticks >= 2
    /\ resolved = {}
    /\ timeout_saved = Keys(task_mapping)
    /\ Len(task_mapping) = 2


(* C33: success records are stable within a run.  Once a save of a payload *)
(* for a subject has returned, no later save of the same run replaces the  *)
(* subject's record with null.                                             *)
C33_SuccessStable ==
    [][\A s \in DOMAIN committed :
          (committed[s] = CONTENT /\ run' = run /\ pc' # "crashed") =>
              (s \in DOMAIN committed' /\ committed'[s] = CONTENT)]_vars

(* the except clause has stored null for a subject whose payload the poll  *)
(* of the same chunk had fetched and checkpointed                          *)
C33_Witness ==
    /\ mode = "async"
    /\ pc = "except_save"
    /\ \E s \in fetched_ok :
          /\ s \in completed_tasks
          /\ s \in DOMAIN Stored
          /\ Stored[s] = NULL

(* C34: one checkpoint write per handle in the poll phase.  While a call   *)
(* of poll_all_tasks runs, it has saved no name more than once, only names *)
(* of the mapping, and each name of completed_tasks exactly once; when it  *)
(* has returned it has saved every name of the mapping exactly once.       *)
C34_OneSavePerHandle ==
    mode = "async" =>
        /\ \A s \in Subjects :
              /\ save_count[s] <= 1
              /\ save_count[s] = 1 => s \in Keys(task_mapping)
        /\ InPoll => \A s \in completed_tasks : save_count[s] = 1
        /\ PollReturned => \A s \in Keys(task_mapping) : save_count[s] = 1

(* a poll of two handles has returned: one was resolved and saved in the   *)
(* first tick, the other by the timeout finalization after a later tick    *)
C34_Witness ==
    /\ PollReturned
    /\ ticks >= 2
    /\ Len(task_mapping) = 2
    /\ Cardinality(completed_tasks) = 1
    /\ Cardinality(timeout_saved) = 1
    /\ \A s \in Keys(task_mapping) : save_count[s] = 1

(* the first max_names entries of the names argument (all of them when     *)
(* max_names is None)                                                      *)
FirstNames ==
    {names_arg[k] : k \in {j \in 1..Len(names_arg) :
                              max_names = 0 \/ j <= max_names}}

(* C35: whole-run coverage.  When process_all_names has returned, every    *)
(* subject among the first max_names entries of its names argument is a    *)
(* key of the stored map, whatever failed on the way.                      *)
C35_WholeRunCoverage ==
    (mode = "async" /\ pc = "returned") =>
        \A s \in FirstNames : s \in DOMAIN Stored

(* a run with max_names below the length of its list has returned after a  *)
(* create failure, a timeout and an exception in a chunk; a name beyond    *)
(* max_names is not stored                                                 *)
C35_Witness ==
    /\ mode = "async"
    /\ pc = "returned"
    /\ run = 1
    /\ max_names = 2
    /\ Len(names_arg) = 3
    /\ SetOf(names_arg) \ FirstNames # {}
    /\ DOMAIN Stored = FirstNames
    /\ exc_before.count > 0
    /\ \A s \in FirstNames : Stored[s] = NULL

(* The remote service as the polls of one call of process_all_names see    *)
(* it.  A task of the current mapping completes, with a fetchable result,  *)
(* at some moment before the deadline of the poll; from then on its status *)
(* is "completed" and its result can be fetched; until then its status is  *)
(* anything else.                                                          *)
RemoteComplete(n) ==
    /\ InPoll
    /\ elapsed < max_wait_time
    /\ n \in Keys(task_mapping) \ (remote_done \cup resolved)
    /\ remote_done' = remote_done \cup {n}
    /\ UNCHANGED <<mode, run, pc, disk, alt_disk, existing_results, asyncVars,
                   saveVars, syncVars, committed, create_log, tick_start,
                   tick_lat, ticks, qticks, instant, loop_over, late_query,
                   timeout_saved, resolved, tickHist, done_at_tick, saveHist,
                   dispHist, prev_pass, poolVars, excVars, runHist,
                   searchVars, callArgs, scrapeVars>>

(* get_task_status answers "completed" for the tasks that have completed   *)
(* and for no other                                                        *)
PollIterRemote ==
    /\ PollIter
    /\ \A n \in Subjects :
          tick_q'[n] # tick_q[n] =>
              (last_status'[n] = "completed" <=> n \in remote_done)

(* get_task_result gives the content of a completed task                   *)
PollResultRemote ==
    /\ PollResult
    /\ task_mapping[idx].name \in fetched_ok'

DeadlineNext ==
    \/ PanStart
    \/ PanHead
    \/ SchedCreate
    \/ SchedSleep
    \/ PollHead
    \/ PollIterRemote
    \/ PollResultRemote
    \/ PollMark
    \/ PollTimeouts
    \/ BatchCompleted
    \/ ExceptSave
    \/ SaveOpen
    \/ SaveDump
    \/ \E n \in Subjects : RemoteComplete(n)

DeadlineSpec == InitAsync /\ [][DeadlineNext]_vars

(* C36 as stated: when poll_all_tasks has returned, every handle whose     *)
(* remote task completed, with a fetchable result, strictly before the     *)
(* deadline is stored with its content.                                    *)
C36_NoResultLost ==
    PollReturned =>
        \A n \in remote_done : n \in DOMAIN Stored /\ Stored[n] = CONTENT

(* C36, amended: a handle whose remote task had completed, with a          *)
(* fetchable result, when a tick of the loop began is stored with its      *)
(* content by the end of that tick.  A task that completes after the last  *)
(* status query of its handle, even strictly before the deadline, is not   *)
(* queried again: the finalization stores null for it.                     *)
C36_DoneBeforeTick ==
    /\ AfterTick =>
          \A n \in done_at_tick :
              /\ n \in completed_tasks
              /\ n \in DOMAIN Stored
              /\ Stored[n] = CONTENT
    /\ PollReturned =>
          \A n \in remote_done :
              /\ n \in DOMAIN Stored
              /\ Stored[n] = IF n \in resolved THEN CONTENT ELSE NULL
              /\ n \in done_at_tick => n \in resolved
              /\ n \notin resolved => n \in timeout_saved

(* a poll has returned: one task had completed before a tick began and is  *)
(* stored with its content; another completed after its last status query, *)
(* before the deadline, and the finalization stored null for it            *)
C36_Witness ==
    /\ PollReturned
    /\ ticks >= 2
    /\ \E n \in done_at_tick : Stored[n] = CONTENT
    /\ \E n \in remote_done \ done_at_tick :
          /\ n \in timeout_saved
          /\ Stored[n] = NULL

(* the URLs the retry does not reprocess: those stored with names          *)
NotReprocessed == {u \in DOMAIN url_before : url_before[u] = WITH_NAMES}

(* C37: the retry of empty results preserves other records.  From the      *)
(* first save of process_empty_name_urls_only on, and when it has          *)
(* returned, the results file holds the record it held at the start for    *)
(* every URL the retry does not reprocess.                                 *)
C37_RetryPreservesOthers ==
    url_pc \in {"loop", "returned"} =>
        \A u \in NotReprocessed :
            u \in DOMAIN url_file /\ url_file[u] = url_before[u]

(* the retry has returned after reprocessing a URL; a URL that was stored  *)
(* with names is no longer in the results file                             *)
C37_Witness ==
    /\ url_pc = "returned"
    /\ Len(urls_to_process) >= 1
    /\ \E u \in NotReprocessed : u \notin DOMAIN url_file

(* the persons of the input whose upstream record is null, empty or blank  *)
NoInput == {s \in SetOf(InputKeys) : RawOf(s) \in {NULL, "", BLANK}}

(* C38: no completion call without input.  In the structurer, for a        *)
(* person whose upstream record is null or blank, no completion call is    *)
(* issued, the work unit ends with None, and every record checkpointed for *)
(* the person is null; when process_all_people has returned the person is  *)
(* stored with null.  An absent record is read as "", which is no input    *)
(* either.                                                                 *)
C38_NoCallWithoutInput ==
    /\ ~Usable("")
    /\ mode = "sync" =>
          \A s \in NoInput :
              /\ s \notin complete_log
              /\ fstate[s] = "done" => fresult[s] = "none"
              /\ (disk.closed /\ s \in DOMAIN Stored) => Stored[s] = NULL
              /\ pc = "returned" => s \in DOMAIN Stored

(* a run has returned: a person with a null record and one with a blank    *)
(* record are stored with null and no call was made for them, a person     *)
(* with career text is stored with data after a call                       *)
C38_Witness ==
    /\ mode = "sync"
    /\ run = 1
    /\ pc = "returned"
    /\ \E s, t \in NoInput :
          /\ RawOf(s) = NULL
          /\ RawOf(t) = BLANK
          /\ Stored[s] = NULL
          /\ Stored[t] = NULL
    /\ \E u \in complete_log : Stored[u] = CONTENT

(* two characters are equal up to case                                     *)
SameLetter(c, d) ==
    \/ c = d
    \/ {c, d} = {"A", "a"}
    \/ {c, d} = {"B", "b"}

(* q is a substring of t, case-insensitively                               *)
ContainsIgnoringCase(t, q) ==
    \E k \in 0..(Len(t) - Len(q)) :
        \A j \in 1..Len(q) : SameLetter(t[k + j], q[j])

(* the query is, case-insensitively, a substring of the name of the person *)
(* or of the company, title, location, sector, sub-sector or a skill tag   *)
(* of one of the person's jobs                                             *)
QueryIn(person) ==
    \/ ContainsIgnoringCase(person.name, query)
    \/ \E j \in DOMAIN person.jobs :
          \/ \E f \in {"comp", "title", "loc", "sector", "sub_sector"} :
                ContainsIgnoringCase(person.jobs[j][f], query)
          \/ \E t \in DOMAIN person.jobs[j].skill_tags :
                ContainsIgnoringCase(person.jobs[j].skill_tags[t], query)

(* C39: search soundness and read-only access.  For a non-empty query,     *)
(* every record search_alumni has put in its result has at least one job   *)
(* and contains the query, case-insensitively, in its name or in a field   *)
(* or skill tag of one of its jobs; and no step of search_alumni changes   *)
(* the in-memory dataset.                                                  *)
C39_SearchSound ==
    /\ [](query # <<>> =>
            \A k \in DOMAIN results :
                /\ alumni_data[results[k]].jobs # <<>>
                /\ QueryIn(alumni_data[results[k]]))
    /\ [][alumni_data' = alumni_data]_vars

(* a search has returned two records, the first matched by its name in     *)
(* another case, the second by a job only; a person with jobs that does    *)
(* not match and a person without jobs whose name matches were left out    *)
C39_Witness ==
    /\ spc = "returned"
    /\ query = <<"a">>
    /\ Len(results) = 2
    /\ alumni_data[results[1]].name = <<"A">>
    /\ ~ContainsIgnoringCase(alumni_data[results[2]].name, query)
    /\ \E k \in DOMAIN alumni_data :
          /\ alumni_data[k].jobs = <<>>
          /\ ContainsIgnoringCase(alumni_data[k].name, query)

====
